---- MODULE Spec2Model ----
(***************************************************************************)
(* Model of the latency pipeline of nezha-dash-v1:                         *)
(*   fetchMonitor      (lib/nezha-api, src/unnamed/part_000)               *)
(*   NetworkChart      (src/src/components/NetworkChart.tsx)               *)
(* The query of NetworkChart is a small state machine (pending, success,   *)
(* error); everything the component renders is a function of the query     *)
(* result and of the component's own state.                                *)
(*                                                                         *)
(* JavaScript numbers are modelled as exact rationals n/d (records         *)
(* [t |-> "num", n, d] in lowest terms), NaN as a value of its own.        *)
(* Timestamps are integers (epoch milliseconds).                           *)
(***************************************************************************)
EXTENDS Integers, Sequences, FiniteSets, TLC

VARIABLES
    km_nodes,       \* the node list of getKomariNodes: its error flag, whether it holds the server
    km_monitors,    \* the payload of getRecords
    now,            \* Date.now()
    queryStatus,    \* useQuery: "pending", "success" or "error"
    monitorData,    \* useQuery data
    rangeHours,     \* the rangeHours prop of NetworkChart
    range,          \* { rangeStart, rangeEnd } of the last render of the chart
    activeCharts,   \* NetworkChartClient: the selected monitors, in click order
    isPeakEnabled,  \* NetworkChartClient: the Peak-Cut switch
    renders,        \* the later renders of the chart, oldest first: range, series, formattedData
    maxHours,       \* ServerDetail: Number(settingData?.data?.ping_record_preserve_time)
    networkRange,   \* ServerDetail: the selected network range option
    detailMaxHours, \* ServerDetail: Number(settingData?.data?.record_preserve_time)
    detailRange     \* ServerDetail: the selected detail range option

vars == <<km_nodes, km_monitors, now, queryStatus, monitorData,
          rangeHours, range, activeCharts, isPeakEnabled,
          renders, maxHours, networkRange, detailMaxHours, detailRange>>

(***************************************************************************)
(* JavaScript values                                                       *)
(***************************************************************************)
Undefined == [t |-> "undefined", n |-> 0, d |-> 1]
Null      == [t |-> "null", n |-> 0, d |-> 1]
NaN       == [t |-> "nan", n |-> 0, d |-> 1]
Num(k)    == [t |-> "num", n |-> k, d |-> 1]

IsNum(x) == x.t = "num"

\* Number(x) for the values a record can carry
ToNumber(x) ==
    CASE x.t = "num"  -> x
      [] x.t = "null" -> Num(0)
      [] OTHER        -> NaN

\* Number.isFinite(x)
NumberIsFinite(x) == x.t = "num"

\* an array given by its entries, each evaluated once
ArrayFrom(entries) == entries \o <<>>

\* a time string: an ISO date of `ms` epoch milliseconds, or text that is no date
IsoTime(ms)   == [t |-> "iso", ms |-> ms]
JunkTime      == [t |-> "junk", ms |-> 0]
UndefinedTime == [t |-> "undefined", ms |-> 0]

\* Date.parse(rec.time ?? "")
DateParse(s) == IF s.t = "iso" THEN Num(s.ms) ELSE NaN

\* a name: a string or undefined
Name(s)       == [t |-> "string", s |-> s]
UndefinedName == [t |-> "undefined", s |-> ""]

\* `task_${id}`
TaskName(id) ==
    CASE id = 0 -> "task_0"
      [] id = 1 -> "task_1"
      [] id = 2 -> "task_2"
      [] OTHER  -> "task_n"

(***************************************************************************)
(* fetchMonitor                                                            *)
(***************************************************************************)
\* seriesByTask is a Map in insertion order: a sequence of series
HasSeries(seriesByTask, id) ==
    \E i \in 1..Len(seriesByTask) : seriesByTask[i].monitor_id = id

SeriesIndex(seriesByTask, id) ==
    CHOOSE i \in 1..Len(seriesByTask) : seriesByTask[i].monitor_id = id

\* a registration that renames a series that exists already
ensureSeriesRenaming(seriesByTask, id, name) ==
    IF HasSeries(seriesByTask, id)
    THEN [seriesByTask EXCEPT ![SeriesIndex(seriesByTask, id)].monitor_name = name]
    ELSE Append(seriesByTask,
                [monitor_id |-> id, monitor_name |-> name,
                 created_at |-> <<>>, avg_delay |-> <<>>])

\* if (!seriesByTask.has(id)) seriesByTask.set(id, {...}): the first
\* registration of an id decides its name
ensureSeries(seriesByTask, id, name) ==
    IF HasSeries(seriesByTask, id)
    THEN seriesByTask
    ELSE Append(seriesByTask,
                [monitor_id |-> id, monitor_name |-> name,
                 created_at |-> <<>>, avg_delay |-> <<>>])

\* typeof rec.task_id === "number" ? rec.task_id : 0
RecordId(rec) == IF rec.task_id.t = "num" THEN rec.task_id.n ELSE 0

\* nameOverride ?? rec.name ?? `task_${id}` (no caller passes nameOverride)
RecordName(rec) ==
    IF rec.name.t = "string" THEN rec.name.s ELSE TaskName(RecordId(rec))

\* val === -1 ? null : val
DelayOfNoSentinel(val) == val

DelayOf(val) == IF val = Num(-1) THEN Null ELSE val

\* a test of the timestamp alone
IsValidRecordTimeOnly(rec) == NumberIsFinite(DateParse(rec.time))

\* a record is pushed when its timestamp and its value are finite
IsValidRecord(rec) ==
    /\ NumberIsFinite(DateParse(rec.time))
    /\ NumberIsFinite(ToNumber(rec.value))

appendRecord(seriesByTask, rec) ==
    LET id   == RecordId(rec)
        m    == ensureSeries(seriesByTask, id, RecordName(rec))
        i    == SeriesIndex(m, id)
        ts   == DateParse(rec.time)
        val  == ToNumber(rec.value)
    IN  IF ~IsValidRecord(rec)
        THEN m
        ELSE [m EXCEPT ![i].created_at = Append(@, ts.n),
                       ![i].avg_delay  = Append(@, DelayOf(val))]

RECURSIVE appendAll(_, _)
appendAll(seriesByTask, records) ==
    IF records = <<>>
    THEN seriesByTask
    ELSE appendAll(appendRecord(seriesByTask, Head(records)), Tail(records))

RECURSIVE ensureAll(_, _)
ensureAll(seriesByTask, tasks) ==
    IF tasks = <<>>
    THEN seriesByTask
    ELSE ensureAll(ensureSeries(seriesByTask, Head(tasks).id, Head(tasks).name),
                   Tail(tasks))

\* the shape of the payload, first match wins
ShapeOfRecordsFirst(p) ==
    CASE p.kind = "object" /\ p.records.isArray -> "records"
      [] p.kind = "array" -> "array"
      [] OTHER -> "unknown"

ShapeOf(p) ==
    CASE p.kind = "object" /\ p.tasks.isArray /\ p.records.isArray -> "tasks+records"
      [] p.kind = "object" /\ p.records.isArray -> "records"
      [] p.kind = "array" -> "array"
      [] OTHER -> "unknown"

SeriesByTaskOf(p) ==
    CASE ShapeOf(p) = "tasks+records" ->
            appendAll(ensureAll(<<>>, p.tasks.items), p.records.items)
      [] ShapeOf(p) = "records" -> appendAll(<<>>, p.records.items)
      [] ShapeOf(p) = "array"   -> appendAll(<<>>, p.items)
      [] OTHER -> <<>>

\* zip.sort((a, b) => a.t - b.t): Array.prototype.sort is stable
RECURSIVE InsertByTime(_, _)
InsertByTime(sorted, z) ==
    IF sorted = <<>> THEN <<z>>
    ELSE IF Head(sorted).t <= z.t
         THEN <<Head(sorted)>> \o InsertByTime(Tail(sorted), z)
         ELSE <<z>> \o sorted

RECURSIVE SortByTime(_)
SortByTime(zip) ==
    IF zip = <<>> THEN <<>>
    ELSE InsertByTime(SortByTime(SubSeq(zip, 1, Len(zip) - 1)), zip[Len(zip)])

Zip(s) == [i \in 1..Len(s.created_at) |-> [t |-> s.created_at[i], v |-> s.avg_delay[i]]]

RECURSIVE SortInts(_)
SortInts(ts) ==
    IF ts = <<>> THEN <<>>
    ELSE LET rest == SortInts(SubSeq(ts, 1, Len(ts) - 1))
             x    == ts[Len(ts)]
             k    == Cardinality({i \in 1..Len(rest) : rest[i] <= x})
         IN  SubSeq(rest, 1, k) \o <<x>> \o SubSeq(rest, k + 1, Len(rest))

SortSeriesUnsorted(s) == s

SortSeriesTimesOnly(s) == [s EXCEPT !.created_at = SortInts(s.created_at)]

SortSeries(s) ==
    LET zip == SortByTime(Zip(s))
    IN  [s EXCEPT !.created_at = [i \in 1..Len(zip) |-> zip[i].t],
                  !.avg_delay  = [i \in 1..Len(zip) |-> zip[i].v]]

\* if (s.avg_delay.length == 0) { s.avg_delay = [null]; s.created_at = [Date.now()] }
PadEmptyNever(s, t) == s

PadEmpty(s, t) ==
    IF Len(s.avg_delay) = 0
    THEN [s EXCEPT !.avg_delay = <<Null>>, !.created_at = <<t>>]
    ELSE s

\* the early exits of fetchMonitor: a truthy error field throws
FetchThrowsIgnoringRecordsError(nodes, p) == nodes.error

FetchThrows(nodes, p) ==
    \/ nodes.error
    \/ nodes.found /\ p.error

\* the MonitorResponse of a call that does not throw
fetchMonitor(nodes, p, t) ==
    IF ~nodes.found
    THEN [success |-> TRUE, data |-> <<>>]
    ELSE LET m == SeriesByTaskOf(p)
         IN  [success |-> TRUE,
              data |-> [i \in 1..Len(m) |-> PadEmpty(SortSeries(m[i]), t)]]

(***************************************************************************)
(* Arithmetic on JavaScript numbers, as exact rationals in lowest terms    *)
(***************************************************************************)
Abs(k) == IF k < 0 THEN -k ELSE k
Min2(a, b) == IF a <= b THEN a ELSE b
Max2(a, b) == IF a >= b THEN a ELSE b

RECURSIVE GCD(_, _)
GCD(a, b) == IF b = 0 THEN a ELSE GCD(b, a % b)

Rat(n, d) ==
    LET g == GCD(Abs(n), d)
    IN  IF n = 0 THEN [t |-> "num", n |-> 0, d |-> 1]
        ELSE [t |-> "num", n |-> n \div g, d |-> d \div g]

RAdd(a, b) ==
    LET g == GCD(a.d, b.d)
    IN  Rat(a.n * (b.d \div g) + b.n * (a.d \div g), (a.d \div g) * b.d)

RNeg(a)    == [a EXCEPT !.n = -a.n]
RSub(a, b) == RAdd(a, RNeg(b))
RAbs(a)    == [a EXCEPT !.n = Abs(a.n)]

RMul(a, b) ==
    LET g1 == GCD(Abs(a.n), b.d)
        g2 == GCD(Abs(b.n), a.d)
    IN  IF a.n = 0 \/ b.n = 0 THEN Num(0)
        ELSE Rat((a.n \div g1) * (b.n \div g2), (a.d \div g2) * (b.d \div g1))

\* a / b for b # 0
RDiv(a, b) ==
    RMul(a, IF b.n < 0 THEN [t |-> "num", n |-> -b.d, d |-> -b.n]
                       ELSE [t |-> "num", n |-> b.d, d |-> b.n])

\* compared over the least common denominator
\* an/ad <= bn/bd for ad, bd > 0, by integer parts and then the
\* reciprocals of the fractional parts: no product is formed
RECURSIVE LeByParts(_, _, _, _)
LeByParts(an, ad, bn, bd) ==
    IF an \div ad # bn \div bd THEN an \div ad < bn \div bd
    ELSE IF an % ad = 0 THEN TRUE
    ELSE IF bn % bd = 0 THEN FALSE
    ELSE LeByParts(bd, bn % bd, ad, an % ad)

\* products of numbers below 2^15 fit
IsSmall(a) == Abs(a.n) <= 32767 /\ a.d <= 32767

RLe(a, b) ==
    IF IsSmall(a) /\ IsSmall(b)
    THEN LET g == GCD(a.d, b.d)
         IN  a.n * (b.d \div g) <= b.n * (a.d \div g)
    ELSE LeByParts(a.n, a.d, b.n, b.d)
RLt(a, b) == ~RLe(b, a)
RMin(a, b) == IF RLe(a, b) THEN a ELSE b
RMax(a, b) == IF RLe(a, b) THEN b ELSE a

\* the ascending sequence of a finite set of integers
SortSet(S) ==
    LET ranked == {<<Cardinality({y \in S : y < x}) + 1, x>> : x \in S}
    IN  ArrayFrom([i \in 1..Cardinality(S) |-> (CHOOSE p \in ranked : p[1] = i)[2]])

(***************************************************************************)
(* NetworkChart: the time range                                            *)
(***************************************************************************)
AllTimes(data) ==
    UNION {{data[k].created_at[i] : i \in 1..Len(data[k].created_at)} : k \in 1..Len(data)}

\* typeof x === "string" ? Date.parse(x) : NaN
ParseReported(x) == IF x.t = "undefined" THEN NaN ELSE DateParse(x)

\* rangeStart >= rangeEnd, or one of them not finite
IsDegenerate(rangeStart, rangeEnd) ==
    \/ ~NumberIsFinite(rangeStart)
    \/ ~NumberIsFinite(rangeEnd)
    \/ rangeStart.n >= rangeEnd.n

\* the hours taken as they are
SafeHoursUnchecked(hours) == hours

\* Math.max(1, Math.floor(hours)), for whole hours
SafeHours(hours) == Max2(1, hours)

getTimeRange(data, hours, from, to, t) ==
    LET start0 == ParseReported(from)
        end0   == ParseReported(to)
        times  == AllTimes(data)
        \* minTime and maxTime stay infinite when no series has a point
        hasMin == times # {}
        minTime == CHOOSE x \in times : \A y \in times : x <= y
        maxTime == CHOOSE x \in times : \A y \in times : x >= y
        fill   == IsDegenerate(start0, end0)
        start1 == IF fill /\ ~NumberIsFinite(start0) /\ hasMin THEN Num(minTime) ELSE start0
        end1   == IF fill /\ ~NumberIsFinite(end0) /\ hasMin THEN Num(maxTime) ELSE end0
    IN  IF IsDegenerate(start1, end1)
        THEN [rangeStart |-> Num(t - SafeHours(hours) * 60 * 60 * 1000),
              rangeEnd   |-> Num(t)]
        ELSE [rangeStart |-> start1, rangeEnd |-> end1]

(***************************************************************************)
(* NetworkChart: the timeline                                              *)
(***************************************************************************)
\* the positive consecutive deltas of one series, in order
RECURSIVE DeltasOf(_, _)
DeltasOf(times, i) ==
    IF i > Len(times) THEN <<>>
    ELSE (IF times[i] - times[i - 1] > 0 THEN <<times[i] - times[i - 1]>> ELSE <<>>)
            \o DeltasOf(times, i + 1)

RECURSIVE AllDeltas(_, _)
AllDeltas(data, k) ==
    IF k > Len(data) THEN <<>>
    ELSE DeltasOf(data[k].created_at, 2) \o AllDeltas(data, k + 1)

DEFAULT_INTERVAL_MS == 60 * 1000

\* getMedianValue, doubled: the middle value, or the mean of the two middle values
TwiceMedianLower(values) ==
    LET sorted == SortInts(values)
        mid    == Len(sorted) \div 2
    IN  IF Len(sorted) % 2 = 1 THEN 2 * sorted[mid + 1] ELSE 2 * sorted[mid]

TwiceMedian(values) ==
    LET sorted == SortInts(values)
        mid    == Len(sorted) \div 2
    IN  IF Len(sorted) % 2 = 1 THEN 2 * sorted[mid + 1]
        ELSE sorted[mid] + sorted[mid + 1]

\* Math.round replaced by Math.floor
RoundToSecondDown(twiceMedian) == (twiceMedian \div 2000) * 1000

\* Math.round(median / 1000) * 1000, with Math.round rounding halves up
RoundToSecond(twiceMedian) == ((twiceMedian + 1000) \div 2000) * 1000

\* Math.max(1000, rounded || median); rounded is 0 only for a median below
\* 500, whose integer part decides the maximum just as well
getTypicalIntervalMs(data) ==
    LET deltas  == AllDeltas(data, 1)
        median2 == TwiceMedian(deltas)
        rounded == RoundToSecond(median2)
    IN  IF deltas = <<>> THEN DEFAULT_INTERVAL_MS
        ELSE Max2(1000, IF rounded # 0 THEN rounded ELSE median2 \div 2)

Span(start, end) == [start |-> start, end |-> end]

\* const spanStart = prev + intervalMs (and lastTime + intervalMs)
SpanStartAtSample(prev, intervalMs) == prev

SpanStart(prev, intervalMs) == prev + intervalMs

\* the spans between consecutive observed times, from index i on
RECURSIVE InnerSpans(_, _, _, _)
InnerSpans(sortedTimes, i, rangeEnd, intervalMs) ==
    IF i > Len(sortedTimes) THEN <<>>
    ELSE LET prev == sortedTimes[i - 1]
             next == sortedTimes[i]
             spanStart == SpanStart(prev, intervalMs)
             spanEnd   == Min2(next, rangeEnd)
         IN  (IF 2 * (next - prev) > 3 * intervalMs /\ spanStart < spanEnd
              THEN <<Span(spanStart, spanEnd)>> ELSE <<>>)
                \o InnerSpans(sortedTimes, i + 1, rangeEnd, intervalMs)

\* buildOfflineSpans without the test of the gap after the last sample
buildOfflineSpansNoTrailing(observedTimes, rangeStart, rangeEnd, intervalMs) ==
    IF IsDegenerate(rangeStart, rangeEnd) \/ intervalMs <= 0 THEN <<>>
    ELSE IF Len(observedTimes) = 0 THEN <<Span(rangeStart.n, rangeEnd.n)>>
    ELSE LET sortedTimes == SortInts(observedTimes)
             firstTime   == sortedTimes[1]
         IN  (IF 2 * (firstTime - rangeStart.n) > 3 * intervalMs
              THEN <<Span(rangeStart.n, firstTime)>> ELSE <<>>)
             \o InnerSpans(sortedTimes, 2, rangeEnd.n, intervalMs)

\* threshold = intervalMs * 1.5, compared after doubling both sides
buildOfflineSpans(observedTimes, rangeStart, rangeEnd, intervalMs) ==
    IF IsDegenerate(rangeStart, rangeEnd) \/ intervalMs <= 0 THEN <<>>
    ELSE IF Len(observedTimes) = 0 THEN <<Span(rangeStart.n, rangeEnd.n)>>
    ELSE LET sortedTimes == SortInts(observedTimes)
             firstTime   == sortedTimes[1]
             lastTime    == sortedTimes[Len(sortedTimes)]
         IN  (IF 2 * (firstTime - rangeStart.n) > 3 * intervalMs
              THEN <<Span(rangeStart.n, firstTime)>> ELSE <<>>)
             \o InnerSpans(sortedTimes, 2, rangeEnd.n, intervalMs)
             \o (IF 2 * (rangeEnd.n - lastTime) > 3 * intervalMs
                    /\ SpanStart(lastTime, intervalMs) < rangeEnd.n
                 THEN <<Span(SpanStart(lastTime, intervalMs), rangeEnd.n)>> ELSE <<>>)

\* the points of a span with its end included
SpanPointsInclusive(span, intervalMs) ==
    ArrayFrom([k \in 1..((span.end - span.start) \div intervalMs + 1) |->
                span.start + (k - 1) * intervalMs])

\* for (let t = span.start; t < span.end; t += intervalMs), for a span
\* with start < end
SpanPoints(span, intervalMs) ==
    ArrayFrom([k \in 1..((span.end - span.start - 1) \div intervalMs + 1) |->
                span.start + (k - 1) * intervalMs])

RECURSIVE AllSpanPoints(_, _, _)
AllSpanPoints(spans, k, intervalMs) ==
    IF k > Len(spans) THEN <<>>
    ELSE (IF spans[k].start < spans[k].end
          THEN SpanPoints(spans[k], intervalMs) ELSE <<>>)
            \o AllSpanPoints(spans, k + 1, intervalMs)

buildOfflinePoints(spans, intervalMs) ==
    IF intervalMs <= 0 THEN <<>> ELSE AllSpanPoints(spans, 1, intervalMs)

SeqToSet(seq) == {seq[i] : i \in 1..Len(seq)}

buildTimelineData(rawData, rangeStart, rangeEnd) ==
    LET observedSet ==
            {x \in AllTimes(rawData) :
                /\ NumberIsFinite(rangeStart) /\ NumberIsFinite(rangeEnd)
                /\ x >= rangeStart.n /\ x <= rangeEnd.n}
        observedTimes == SortSet(observedSet)
        intervalMs    == getTypicalIntervalMs(rawData)
        offlineSpans  == buildOfflineSpans(observedTimes, rangeStart, rangeEnd, intervalMs)
        offlinePoints == buildOfflinePoints(offlineSpans, intervalMs)
    IN  [timeline     |-> SortSet(observedSet \cup SeqToSet(offlinePoints)),
         offlineSpans |-> offlineSpans,
         observedSet  |-> observedSet,
         intervalMs   |-> intervalMs]

(***************************************************************************)
(* NetworkChart: calculatePacketLoss                                       *)
(***************************************************************************)
\* the largest k with k * k <= n, for 0 <= n < 2^31
RECURSIVE ISqrtIn(_, _, _)
ISqrtIn(n, lo, hi) ==
    IF lo = hi THEN lo
    ELSE LET mid == (lo + hi + 1) \div 2
         IN  IF mid * mid <= n THEN ISqrtIn(n, mid, hi) ELSE ISqrtIn(n, lo, mid - 1)

ISqrt(n) == ISqrtIn(n, 0, 46340)

\* Math.sqrt of a rational q >= 0, rounded down to a multiple of 1/scale; the
\* scale is 1000 unless the numerator is too large for it
SqrtScale(q) == IF q.n <= 2147 THEN 1000 ELSE IF q.n <= 214748 THEN 100 ELSE 10

RSqrt(q) ==
    LET sc == SqrtScale(q)
        \* a numerator too large even for the scale 10 is cut down, with the
        \* denominator, to one that fits the scale 100
        f  == q.n \div 214748 + 1
    IN  IF q.n <= 21474836 THEN Rat(ISqrt((q.n * sc * sc) \div q.d), sc)
        ELSE Rat(ISqrt(((q.n \div f) * 10000) \div Max2(1, q.d \div f)), 100)

\* Number(rate.toFixed(2)): two decimals, halves rounded up
ToFixed2(r) ==
    Rat(100 * (r.n \div r.d) + (200 * (r.n % r.d) + r.d) \div (2 * r.d), 100)

RECURSIVE RSum(_)
RSum(values) == IF values = <<>> THEN Num(0) ELSE RAdd(Head(values), RSum(Tail(values)))

IsPositiveDelay(v) == IsNum(v) /\ v.n > 0

LossWindowSize(delays) == Min2(10, Max2(3, Len(delays) \div 10))

\* delays.slice(start, end).filter((d) => d !== null && d > 0), i counted from 0
LossWindow(delays, i) ==
    LET ws    == LossWindowSize(delays)
        start == Max2(0, i - ws \div 2)
        end   == Min2(Len(delays), i + (ws + 1) \div 2)
    IN  SelectSeq(SubSeq(delays, start + 1, end), IsPositiveDelay)

\* the loss rate from the spread of the window, for a delay below 3000
SpreadLoss(currentDelay, windowDelays) ==
    LET n    == Len(windowDelays)
        mean == RDiv(RSum(windowDelays), Num(n))
        variance ==
            RDiv(RSum([k \in 1..n |->
                        RMul(RSub(windowDelays[k], mean), RSub(windowDelays[k], mean))]),
                 Num(n))
        cov2 == RDiv(variance, RMul(mean, mean))
        cov  == RSqrt(cov2)
        base == IF RLt(Rat(16, 25), cov2) THEN RMin(Num(25), RMul(cov, Num(15)))
                ELSE IF RLt(Rat(1, 4), cov2) THEN RMin(Num(10), RMul(cov, Num(8)))
                ELSE IF RLt(Rat(9, 100), cov2) THEN RMin(Num(5), RMul(cov, Num(5)))
                ELSE Num(0)
        extra == IF RLt(RMul(mean, Rat(5, 2)), currentDelay)
                 THEN RMin(Num(15), RMul(RSub(RDiv(currentDelay, mean), Rat(5, 2)), Num(10)))
                 ELSE Num(0)
    IN  IF n > 2 THEN RAdd(base, extra) ELSE Num(0)

\* the classes with the timeout test before the test of an extreme delay
RawLossTimeoutFirst(delays, i) ==
    LET currentDelay == delays[i + 1]
    IN  IF ~IsNum(currentDelay) \/ currentDelay.n = 0 THEN Num(100)
        ELSE IF RLe(Num(3000), currentDelay)
             THEN RMin(Num(50), RDiv(RSub(currentDelay, Num(3000)), Num(200)))
        ELSE IF RLe(Num(10000), currentDelay)
             THEN RMin(Num(95), RAdd(Num(60), RDiv(RSub(currentDelay, Num(10000)), Num(1000))))
        ELSE SpreadLoss(currentDelay, LossWindow(delays, i))

\* the loss rate of entry i (counted from 0) before smoothing
RawLoss(delays, i) ==
    LET currentDelay == delays[i + 1]
    IN  IF ~IsNum(currentDelay) \/ currentDelay.n = 0 THEN Num(100)
        ELSE IF RLe(Num(10000), currentDelay)
             THEN RMin(Num(95), RAdd(Num(60), RDiv(RSub(currentDelay, Num(10000)), Num(1000))))
        ELSE IF RLe(Num(3000), currentDelay)
             THEN RMin(Num(50), RDiv(RSub(currentDelay, Num(3000)), Num(200)))
        ELSE SpreadLoss(currentDelay, LossWindow(delays, i))

Clamp100(r) == RMax(Num(0), RMin(Num(100), r))

\* packetLossRates before the final rounding, entries 0..i
RECURSIVE SmoothedLoss(_, _)
\* the rates without the exponential smoothing
SmoothedLossUnsmoothed(delays, i) ==
    [k \in 1..(i + 1) |-> Clamp100(RawLoss(delays, k - 1))]

SmoothedLoss(delays, i) ==
    IF i = 0 THEN <<Clamp100(RawLoss(delays, 0))>>
    ELSE LET before == SmoothedLoss(delays, i - 1)
             rate   == RAdd(RMul(Rat(3, 10), RawLoss(delays, i)),
                            RMul(Rat(7, 10), before[i]))
         IN  Append(before, Clamp100(rate))

calculatePacketLoss(delays) ==
    IF Len(delays) = 0 THEN <<>>
    ELSE LET rates == SmoothedLoss(delays, Len(delays) - 1)
         IN  [k \in 1..Len(rates) |-> ToFixed2(rates[k])]

(***************************************************************************)
(* NetworkChart: transformData and formatData                              *)
(***************************************************************************)
OFFLINE_KEY == "__offline__"

PacketLossKey(name) == name \o "_packet_loss"

\* Object.keys(transformData(data)): the monitor names, each once, in the
\* order of their first series
RECURSIVE chartDataKeyOf(_, _)
chartDataKeyOf(data, k) ==
    IF k = 0 THEN <<>>
    ELSE LET before == chartDataKeyOf(data, k - 1)
         IN  IF data[k].monitor_name \in SeqToSet(before) THEN before
             ELSE Append(before, data[k].monitor_name)

\* a row is a function from its keys to their values
GetKey(row, key) == IF key \in DOMAIN row THEN row[key] ELSE Undefined

SetKey(row, key, v) == (key :> v) @@ row

\* a row that is always marked offline
NewRowOffline(time, observedSet) ==
    SetKey(SetKey(<<>>, "created_at", Num(time)), OFFLINE_KEY, Num(1))

NewRow(time, observedSet) ==
    SetKey(SetKey(<<>>, "created_at", Num(time)),
           OFFLINE_KEY, IF time \in observedSet THEN Null ELSE Num(1))

IsPresent(v) == v.t # "null" /\ v.t # "undefined"

\* validPoints of one series
ValidPointsOf(item) ==
    LET idx == SelectSeq([i \in 1..Len(item.avg_delay) |-> i],
                         LAMBDA i : IsPresent(item.avg_delay[i]))
    IN  [k \in 1..Len(idx) |->
            [time |-> item.created_at[idx[k]], value |-> item.avg_delay[idx[k]]]]

\* Map.get(time): the entry that was set last for that time
LastIndexOf(created_at, time) ==
    CHOOSE i \in 1..Len(created_at) :
        /\ created_at[i] = time
        /\ \A j \in (i + 1)..Len(created_at) : created_at[j] # time

NoPoint == [time |-> 0, value |-> Undefined]

\* a cursor that moves by one sample at most at each row
AdvanceCursorOnce(validPoints, cursor, time) ==
    IF cursor.nextIndex < Len(validPoints)
          /\ validPoints[cursor.nextIndex + 1].time < time
    THEN [nextIndex |-> cursor.nextIndex + 1,
          prevPoint |-> validPoints[cursor.nextIndex + 1]]
    ELSE cursor

\* while (nextIndex < validPoints.length && validPoints[nextIndex].time < time)
RECURSIVE AdvanceCursor(_, _, _)
AdvanceCursor(validPoints, cursor, time) ==
    IF cursor.nextIndex < Len(validPoints)
          /\ validPoints[cursor.nextIndex + 1].time < time
    THEN AdvanceCursor(validPoints,
                       [nextIndex |-> cursor.nextIndex + 1,
                        prevPoint |-> validPoints[cursor.nextIndex + 1]],
                       time)
    ELSE cursor

\* prevPoint.value + ratio * (nextPoint.value - prevPoint.value), or null
\* interpolation without the test of the gap between the two samples
InterpolateAtAnyGap(validPoints, cursor, time, intervalMs) ==
    LET prevPoint == cursor.prevPoint
        nextPoint == IF cursor.nextIndex < Len(validPoints)
                     THEN validPoints[cursor.nextIndex + 1] ELSE NoPoint
    IN  IF prevPoint # NoPoint /\ nextPoint # NoPoint /\ intervalMs > 0
        THEN LET ratio == Rat(time - prevPoint.time, nextPoint.time - prevPoint.time)
             IN  RAdd(prevPoint.value,
                      RMul(ratio, RSub(nextPoint.value, prevPoint.value)))
        ELSE Null

InterpolateAt(validPoints, cursor, time, intervalMs) ==
    LET prevPoint == cursor.prevPoint
        nextPoint == IF cursor.nextIndex < Len(validPoints)
                     THEN validPoints[cursor.nextIndex + 1] ELSE NoPoint
    IN  IF /\ prevPoint # NoPoint
           /\ nextPoint # NoPoint
           /\ intervalMs > 0
           /\ 2 * (nextPoint.time - prevPoint.time) <= 3 * intervalMs
        THEN LET ratio == Rat(time - prevPoint.time, nextPoint.time - prevPoint.time)
             IN  RAdd(prevPoint.value,
                      RMul(ratio, RSub(nextPoint.value, prevPoint.value)))
        ELSE Null

\* the body of the inner timeline.forEach for one time: the row and the cursor
\* a step that fills the packet loss of an interpolated row with the loss
\* of the previous sample
FormatStepLossFilled(row, item, packetLoss, validPoints, cursor, time, intervalMs) ==
    LET name == item.monitor_name
        sampleTimes == SeqToSet(item.created_at)
        earlier == {i \in 1..Len(item.created_at) : item.created_at[i] < time}
    IN  IF row[OFFLINE_KEY] # Null
        THEN [row    |-> SetKey(SetKey(row, name, Null), PacketLossKey(name), Null),
              cursor |-> cursor]
        ELSE IF time \in sampleTimes
        THEN LET i == LastIndexOf(item.created_at, time)
             IN  [row    |-> SetKey(SetKey(row, name, item.avg_delay[i]),
                                    PacketLossKey(name), packetLoss[i]),
                  cursor |-> cursor]
        ELSE LET moved == AdvanceCursor(validPoints, cursor, time)
             IN  [row    |-> SetKey(SetKey(row, name,
                                           InterpolateAt(validPoints, moved, time, intervalMs)),
                                    PacketLossKey(name),
                                    IF earlier = {} THEN Null
                                    ELSE packetLoss[CHOOSE i \in earlier :
                                                        \A n \in earlier : n <= i]),
                  cursor |-> moved]

\* a step without the branch of the sample times
FormatStepNoSamples(row, item, packetLoss, validPoints, cursor, time, intervalMs) ==
    LET name == item.monitor_name
    IN  IF row[OFFLINE_KEY] # Null
        THEN [row    |-> SetKey(SetKey(row, name, Null), PacketLossKey(name), Null),
              cursor |-> cursor]
        ELSE LET moved == AdvanceCursor(validPoints, cursor, time)
             IN  [row    |-> SetKey(SetKey(row, name,
                                           InterpolateAt(validPoints, moved, time, intervalMs)),
                                    PacketLossKey(name), Null),
                  cursor |-> moved]

FormatStep(row, item, packetLoss, validPoints, cursor, time, intervalMs) ==
    LET name == item.monitor_name
        sampleTimes == SeqToSet(item.created_at)
    IN  IF row[OFFLINE_KEY] # Null
        THEN [row    |-> SetKey(SetKey(row, name, Null), PacketLossKey(name), Null),
              cursor |-> cursor]
        ELSE IF time \in sampleTimes
        THEN LET i == LastIndexOf(item.created_at, time)
             IN  [row    |-> SetKey(SetKey(row, name, item.avg_delay[i]),
                                    PacketLossKey(name), packetLoss[i]),
                  cursor |-> cursor]
        ELSE LET moved == AdvanceCursor(validPoints, cursor, time)
             IN  [row    |-> SetKey(SetKey(row, name,
                                           InterpolateAt(validPoints, moved, time, intervalMs)),
                                    PacketLossKey(name), Null),
                  cursor |-> moved]

\* result holds one row per time of the timeline and is kept in the order of
\* the timeline: result[j] is the row of timeline[j]

\* the timeline indices at which one series reaches the while loop: the row
\* is not offline and its time is no sample time of the series
WalkedRows(result, item, timeline) ==
    LET sampleTimes == SeqToSet(item.created_at)
    IN  SelectSeq(ArrayFrom([j \in 1..Len(timeline) |-> j]),
                  LAMBDA j : /\ result[j][OFFLINE_KEY] = Null
                             /\ timeline[j] \notin sampleTimes)

\* nextIndex and prevPoint after the first k of those rows: the cursor only
\* moves forward, from where the previous such row left it
\* a cursor that outlives the call: from the second render on it starts
\* where the walk over the series ended
InitialCursorKept(validPoints) ==
    IF renders = <<>> \/ Len(validPoints) = 0
    THEN [nextIndex |-> 0, prevPoint |-> NoPoint]
    ELSE [nextIndex |-> Len(validPoints), prevPoint |-> validPoints[Len(validPoints)]]

\* let nextIndex = 0; let prevPoint = null: locals of the callback, new for
\* every series of every call
InitialCursor(validPoints) == [nextIndex |-> 0, prevPoint |-> NoPoint]

RECURSIVE CursorAfter(_, _, _, _)
CursorAfter(validPoints, timeline, walked, k) ==
    IF k = 0 THEN InitialCursor(validPoints)
    ELSE AdvanceCursor(validPoints, CursorAfter(validPoints, timeline, walked, k - 1),
                       timeline[walked[k]])

\* the inner timeline.forEach of one series: a step touches the row of its
\* own time only, and takes the cursor as the earlier rows left it
FormatSeries(result, item, packetLoss, timeline, intervalMs) ==
    LET validPoints == ValidPointsOf(item)
        walked == WalkedRows(result, item, timeline)
    IN  ArrayFrom(
            [j \in 1..Len(timeline) |->
                LET before == Cardinality({k \in 1..Len(walked) : walked[k] < j})
                IN  FormatStep(result[j], item, packetLoss, validPoints,
                               CursorAfter(validPoints, timeline, walked, before),
                               timeline[j], intervalMs).row])

\* rawData.forEach, from series k on; a series carries no packet_loss of its
\* own, so it is always calculated
RECURSIVE FormatAll(_, _, _, _, _)
FormatAll(result, rawData, k, timeline, intervalMs) ==
    IF k > Len(rawData) THEN result
    ELSE FormatAll(FormatSeries(result, rawData[k],
                                calculatePacketLoss(rawData[k].avg_delay),
                                timeline, intervalMs),
                   rawData, k + 1, timeline, intervalMs)

\* sort((a, b) => a.created_at - b.created_at), stable: a row goes after
\* the rows with a smaller created_at and the earlier rows with an equal one
SortRows(rows) ==
    LET key  == ArrayFrom([i \in 1..Len(rows) |-> ToNumber(GetKey(rows[i], "created_at"))])
        rank == ArrayFrom([i \in 1..Len(rows) |->
                    Cardinality({j \in 1..Len(rows) :
                        \/ RLt(key[j], key[i])
                        \/ j < i /\ key[j] = key[i]}) + 1])
    IN  ArrayFrom([p \in 1..Len(rows) |-> rows[CHOOSE i \in 1..Len(rows) : rank[i] = p]])

\* Object.values(result) lists the rows by ascending time: keys that are
\* array indices come first in ascending order, other keys in insertion
\* order, which is the order of the timeline
formatData(rawData, timeline, observedSet, intervalMs) ==
    LET initial == ArrayFrom([j \in 1..Len(timeline) |-> NewRow(timeline[j], observedSet)])
    IN  SortRows(FormatAll(initial, rawData, 1, timeline, intervalMs))

(***************************************************************************)
(* NetworkChart: the query and what is rendered from it                    *)
(***************************************************************************)
\* useQuery data before the first result
NoData == [success |-> FALSE, data |-> <<>>]

\* which of the four returns of NetworkChart is taken
View ==
    CASE queryStatus = "error"   -> "fetchFailed"
      [] queryStatus = "pending" -> "loading"
      [] monitorData.success /\ Len(monitorData.data) = 0 -> "noData"
      [] OTHER -> "chart"

\* monitorData.from and monitorData.to: fetchMonitor sets neither
FromOf(response) == IF "from" \in DOMAIN response THEN response.from ELSE UndefinedTime
ToOf(response)   == IF "to" \in DOMAIN response THEN response.to ELSE UndefinedTime

\* the range before the chart has been rendered
NoRange == [rangeStart |-> NaN, rangeEnd |-> NaN]

\* line 117, reached only with a non-empty result
RangeOf(response, hours, t) ==
    IF Len(response.data) = 0 THEN NoRange
    ELSE getTimeRange(response.data, hours, FromOf(response), ToOf(response), t)

\* what NetworkChart hands to NetworkChartClient
TimelineData  == buildTimelineData(monitorData.data, range.rangeStart, range.rangeEnd)
ChartDataKey  == chartDataKeyOf(monitorData.data, Len(monitorData.data))
\* lines 118 and 120 for a response and its range
FormatOf(response, displayed) ==
    LET timelineData == buildTimelineData(response.data, displayed.rangeStart,
                                          displayed.rangeEnd)
    IN  formatData(response.data, timelineData.timeline, timelineData.observedSet,
                   timelineData.intervalMs)

FormattedData == FormatOf(monitorData, range)

(***************************************************************************)
(* NetworkChartClient: the ticks of the time axis                          *)
(***************************************************************************)
\* the minutes between two ticks, for a range of rangeMs milliseconds
StepMinutes(rangeMs) ==
    IF rangeMs <= 6 * 3600000 THEN 30
    ELSE IF rangeMs <= 12 * 3600000 THEN 60
    ELSE IF rangeMs <= 24 * 3600000 THEN 120
    ELSE IF rangeMs <= 48 * 3600000 THEN 240
    ELSE 360

\* the first candidate: rangeStart without its seconds, moved up to the next
\* multiple of the step within the hour or the day; the local time is UTC
TickStart(rangeStart, stepMinutes) ==
    LET minute == (rangeStart \div 60000) * 60000
        hour   == (rangeStart \div 3600000) * 3600000
    IN  IF stepMinutes >= 60
        THEN LET stepHours == stepMinutes \div 60
                 remainder == ((hour \div 3600000) % 24) % stepHours
             IN  IF remainder # 0 THEN hour + (stepHours - remainder) * 3600000 ELSE hour
        ELSE LET remainder == ((minute \div 60000) % 60) % stepMinutes
             IN  IF remainder # 0 THEN minute + (stepMinutes - remainder) * 60000 ELSE minute

buildTimeTicks(rangeStart, rangeEnd) ==
    IF IsDegenerate(rangeStart, rangeEnd) THEN <<>>
    ELSE LET stepMinutes == StepMinutes(rangeEnd.n - rangeStart.n)
             stepMs == stepMinutes * 60 * 1000
             start  == TickStart(rangeStart.n, stepMinutes)
             count  == IF start > rangeEnd.n THEN 0 ELSE (rangeEnd.n - start) \div stepMs + 1
             ticks  == SelectSeq(ArrayFrom([k \in 1..count |-> start + (k - 1) * stepMs]),
                                 LAMBDA t : t >= rangeStart.n /\ t <= rangeEnd.n)
         IN  IF Len(ticks) = 0 THEN <<rangeStart.n, rangeEnd.n>>
             ELSE (IF ticks[1] # rangeStart.n THEN <<rangeStart.n>> ELSE <<>>)
                  \o ticks
                  \o (IF ticks[Len(ticks)] # rangeEnd.n THEN <<rangeEnd.n>> ELSE <<>>)

(***************************************************************************)
(* NetworkChartClient: selection and Peak-Cut                              *)
(***************************************************************************)
\* a window of five rows
windowSizeShort == 11 - 6

windowSize == 11

\* x ?? null
OrNull(v) == IF IsPresent(v) THEN v ELSE Null

\* the rows of single-selection mode
SingleRow(item, selectedChart) ==
    SetKey(SetKey(SetKey(SetKey(<<>>,
        "created_at", GetKey(item, "created_at")),
        "avg_delay", OrNull(GetKey(item, selectedChart))),
        "packet_loss", OrNull(GetKey(item, PacketLossKey(selectedChart)))),
        OFFLINE_KEY, OrNull(GetKey(item, OFFLINE_KEY)))

baseDataOf(formattedData, selected) ==
    IF Len(selected) = 1
    THEN ArrayFrom([i \in 1..Len(formattedData) |->
                        SingleRow(formattedData[i], selected[1])])
    ELSE formattedData

RECURSIVE InsertNum(_, _)
InsertNum(sorted, x) ==
    IF sorted = <<>> THEN <<x>>
    ELSE IF RLe(Head(sorted), x)
         THEN <<Head(sorted)>> \o InsertNum(Tail(sorted), x)
         ELSE <<x>> \o sorted

RECURSIVE SortNums(_)
SortNums(values) ==
    IF values = <<>> THEN <<>>
    ELSE InsertNum(SortNums(SubSeq(values, 1, Len(values) - 1)), values[Len(values)])

getMedian(arr) ==
    LET sorted == SortNums(arr)
        mid    == Len(sorted) \div 2
    IN  IF Len(sorted) % 2 = 1 THEN sorted[mid + 1]
        ELSE RDiv(RAdd(sorted[mid], sorted[mid + 1]), Num(2))

\* ewma = alpha * validValues[i] + (1 - alpha) * ewma, alpha = 0.3
RECURSIVE EwmaOf(_, _)
EwmaOf(validValues, k) ==
    IF k = 1 THEN validValues[1]
    ELSE RAdd(RMul(Rat(3, 10), validValues[k]),
              RMul(Rat(7, 10), EwmaOf(validValues, k - 1)))

\* processValues of a non-empty list (1.4826 = 7413/5000)
processValues(values) ==
    LET median == getMedian(values)
        deviations == [k \in 1..Len(values) |-> RAbs(RSub(values[k], median))]
        medianDeviation == RMul(getMedian(deviations), Rat(7413, 5000))
        validValues ==
            SelectSeq(values,
                      LAMBDA v : /\ RLe(RAbs(RSub(v, median)), RMul(Num(3), medianDeviation))
                                 /\ RLe(v, RMul(median, Num(3))))
    IN  IF validValues = <<>> THEN median ELSE EwmaOf(validValues, Len(validValues))

\* every key is smoothed unless a single chart is selected
KeysToProcessAll(selected, chartDataKey) ==
    IF Len(selected) = 1 THEN <<"avg_delay">> ELSE chartDataKey

\* the keys smoothed in a row
KeysToProcess(selected, chartDataKey) ==
    IF Len(selected) = 1 THEN <<"avg_delay">>
    ELSE IF Len(selected) > 0 THEN selected
    ELSE chartDataKey

\* window.map((w) => w[key]).filter((v) => v !== undefined && v !== null),
\* for the row at `index` (counted from 0)
WindowValues(data, key, index) ==
    SelectSeq(ArrayFrom([k \in 1..windowSize |->
                            GetKey(data[index - windowSize + 1 + k], key)]),
              IsPresent)

\* the rows at which ewmaHistory[key] is updated: a full window that holds
\* a value of the key
UpdatingRows(data, key) ==
    SelectSeq(ArrayFrom([i \in 1..Len(data) |-> i - 1]),
              LAMBDA index : /\ index >= windowSize - 1
                             /\ WindowValues(data, key, index) # <<>>)

\* a history that outlives the pass: after a render it starts at 0
InitialEwmaKept(key) == IF renders = <<>> THEN Undefined ELSE Num(0)

\* const ewmaHistory = {}: a local of the useMemo callback, empty at the
\* start of every pass
InitialEwma(key) == Undefined

\* ewmaHistory[key] after the first k of those rows
RECURSIVE EwmaHistoryAfter(_, _, _, _)
EwmaHistoryAfter(data, key, updating, k) ==
    LET processed == processValues(WindowValues(data, key, updating[k]))
        before    == EwmaHistoryAfter(data, key, updating, k - 1)
    IN  IF k = 0 THEN InitialEwma(key)
        ELSE IF before = Undefined THEN processed
        ELSE RAdd(RMul(Rat(3, 10), processed), RMul(Rat(7, 10), before))

\* keysToProcess.forEach for the row at `index`, from key k on; updating[k]
\* lists the rows at which ewmaHistory[keys[k]] is updated
RECURSIVE SmoothKeys(_, _, _, _, _, _)
SmoothKeys(smoothed, data, keys, updating, k, index) ==
    IF k > Len(keys) THEN smoothed
    ELSE LET upTo == Cardinality({n \in 1..Len(updating[k]) : updating[k][n] <= index})
         IN  SmoothKeys(IF WindowValues(data, keys[k], index) = <<>> THEN smoothed
                        ELSE SetKey(smoothed, keys[k],
                                    EwmaHistoryAfter(data, keys[k], updating[k], upTo)),
                        data, keys, updating, k + 1, index)

\* data.map((point, index) => ...)
PeakCut(data, keys) ==
    LET updating == ArrayFrom([k \in 1..Len(keys) |-> UpdatingRows(data, keys[k])])
    IN  ArrayFrom([i \in 1..Len(data) |->
            IF i - 1 < windowSize - 1 THEN data[i]
            ELSE SmoothKeys(data[i], data, keys, updating, 1, i - 1)])

processedData(formattedData, selected, peak, chartDataKey) ==
    LET baseData == baseDataOf(formattedData, selected)
    IN  IF ~peak THEN baseData
        ELSE PeakCut(baseData, KeysToProcess(selected, chartDataKey))

\* prev.includes(chart) ? prev.filter((c) => c !== chart) : [...prev, chart]
ToggleChart(prev, chart) ==
    IF chart \in SeqToSet(prev)
    THEN SelectSeq(prev, LAMBDA c : c # chart)
    ELSE Append(prev, chart)

(***************************************************************************)
(* Inputs                                                                  *)
(***************************************************************************)
MaxRecords == 2

SeqsUpTo(S, n) == UNION {[1..k -> S] : k \in 0..n}

ArrayOf(items) == [isArray |-> TRUE, items |-> items]
NotArray       == [isArray |-> FALSE, items |-> <<>>]

TaskIdInputs == {Undefined, Num(1)}
TimeInputs   == {JunkTime, IsoTime(0), IsoTime(60000)}
ValueInputs  == {Num(-1), Num(10), Undefined, Null}
NameInputs   == {UndefinedName, Name("a")}

RecordInputs ==
    [task_id : TaskIdInputs, time : TimeInputs, value : ValueInputs, name : NameInputs]

Task(id, name) == [id |-> id, name |-> name]

TaskListInputs ==
    { <<>>, <<Task(1, "a")>>, <<Task(1, "a"), Task(2, "b")>>,
      <<Task(2, "b"), Task(1, "c")>> }

ObjectPayloads(errors, recordLists) ==
    { [kind |-> "object", error |-> e, tasks |-> tk, records |-> r, items |-> <<>>] :
        e \in errors,
        tk \in {NotArray} \cup {ArrayOf(x) : x \in TaskListInputs},
        r \in {NotArray} \cup {ArrayOf(x) : x \in recordLists} }

ArrayPayloads(recordLists) ==
    { [kind |-> "array", error |-> FALSE, tasks |-> NotArray, records |-> NotArray,
       items |-> x] : x \in recordLists }

\* null, a string, a number: anything that is neither an object nor an array
OtherPayload ==
    [kind |-> "other", error |-> FALSE, tasks |-> NotArray, records |-> NotArray,
     items |-> <<>>]

\* the payloads the adapter is explored on; a payload with an error field
\* carries at most one record
PlainObjectPayloads == ObjectPayloads({FALSE}, SeqsUpTo(RecordInputs, MaxRecords))
ErrorObjectPayloads == ObjectPayloads({TRUE}, SeqsUpTo(RecordInputs, 1))
BareArrayPayloads   == ArrayPayloads(SeqsUpTo(RecordInputs, MaxRecords))

NodesOk      == [error |-> FALSE, found |-> TRUE]
NodesError   == [error |-> TRUE, found |-> FALSE]
NodesNoMatch == [error |-> FALSE, found |-> FALSE]

NowInputs == {7200000}

\* the payloads the chart is explored on: { records } of task 1 ("a") and
\* task 2 ("b"), each record a (time, value) pair
Rec(id, name, time, value) ==
    [task_id |-> Num(id), time |-> IsoTime(time), value |-> Num(value), name |-> Name(name)]

JunkRec(id, name) ==
    [task_id |-> Num(id), time |-> JunkTime, value |-> Num(10), name |-> Name(name)]

RecordsOf(id, name, points) ==
    [i \in 1..Len(points) |-> Rec(id, name, points[i][1], points[i][2])]

RecordsPayload(records) ==
    [kind |-> "object", error |-> FALSE, tasks |-> NotArray,
     records |-> ArrayOf(records), items |-> <<>>]

\* three samples, the last after a long silence
ScenarioPoints == << <<0, 10>>, <<60000, 20>>, <<300000, 30>> >>
\* a regular minute cadence, then eleven minutes of silence
LongGapPoints  == << <<0, 10>>, <<60000, 20>>, <<120000, 30>>, <<780000, 40>> >>
RegularPoints  == << <<0, 10>>, <<60000, 20>>, <<120000, 30>> >>
LostProbePoints == << <<0, 10>>, <<60000, -1>>, <<120000, 30>> >>
HalfwayPoints  == << <<30000, 5>>, <<90000, 15>> >>
\* a constant delay
FlatPoints     == << <<0, 10>>, <<60000, 10>>, <<120000, 10>> >>
\* two silences of four minutes
TwoGapsPoints  ==
    << <<0, 10>>, <<60000, 20>>, <<300000, 30>>, <<360000, 40>>, <<600000, 50>> >>

\* samples that start after ten minutes, with a silence of four minutes
LateGapPoints  == << <<600000, 10>>, <<660000, 20>>, <<900000, 30>> >>

\* two samples, four minutes of silence, two samples
CatchUpPoints  == << <<0, 10>>, <<60000, 20>>, <<300000, 30>>, <<360000, 50>> >>

\* a minute cadence with two records at one time, the later one a lost probe
DoubledPoints  == << <<0, 10>>, <<60000, 20>>, <<60000, -1>>, <<120000, 30>> >>

ScenarioPayload == RecordsPayload(RecordsOf(1, "a", ScenarioPoints))
LongGapPayload  == RecordsPayload(RecordsOf(1, "a", LongGapPoints))

\* two tasks that carry the same name
SameNamePayload ==
    RecordsPayload(RecordsOf(1, "a", RegularPoints) \o RecordsOf(2, "a", HalfwayPoints))

SeriesPayloads ==
    { RecordsPayload(RecordsOf(1, "a", pts)) :
        pts \in { ScenarioPoints, LongGapPoints, RegularPoints, LostProbePoints,
                  TwoGapsPoints, DoubledPoints,
                  << <<3660000, 10>> >>, << <<5400000, 10>> >>, << <<0, 10>> >> } }

TwoSeriesPayloads ==
    { RecordsPayload(RecordsOf(1, "a", pts) \o RecordsOf(2, "b", HalfwayPoints)) :
        pts \in {RegularPoints, LostProbePoints, FlatPoints} }
    \cup { RecordsPayload(RecordsOf(1, "a", << <<3660000, 10>> >>)
                            \o RecordsOf(2, "b", << <<5400000, 20>> >>)),
           RecordsPayload(<<JunkRec(1, "a")>> \o RecordsOf(2, "b", RegularPoints)),
           RecordsPayload(RecordsOf(1, "a", CatchUpPoints)
                            \o RecordsOf(2, "b", << <<330000, 5>> >>)),
           RecordsPayload(RecordsOf(1, "a", LongGapPoints)
                            \o RecordsOf(2, "b", << <<0, 5>> >>)),
           RecordsPayload(RecordsOf(1, "a", LongGapPoints)
                            \o RecordsOf(2, "b", << <<0, 5>> >>)
                            \o RecordsOf(3, "c", << <<60000, 7>> >>)),
           SameNamePayload }

ChartPayloads ==
    SeriesPayloads \cup TwoSeriesPayloads
        \cup { RecordsPayload(<<JunkRec(1, "a")>>), RecordsPayload(<<>>),
               [RecordsPayload(RecordsOf(1, "a", RegularPoints)) EXCEPT !.error = TRUE] }

ChartHours == {1, 2}

\* how often the chart is rendered again, and the time that may pass
\* before it is
MaxRenders == 2
RenderDelay == 60 * 1000

\* the inputs getTimeRange is explored on
ReportedInputs == {UndefinedTime, JunkTime, IsoTime(0), IsoTime(60000), IsoTime(1200000)}
RangeHours     == {-1, 0, 1, 2}
RangePayloads  ==
    { RecordsPayload(RecordsOf(1, "a", pts)) :
        pts \in {RegularPoints, LateGapPoints,
                  << <<60000, 10>> >>, << <<0, 10>>, <<0, 20>> >>} }
    \cup { RecordsPayload(<<JunkRec(1, "a")>>),
           RecordsPayload(RecordsOf(1, "a", << <<0, 10>> >>)
                            \o RecordsOf(2, "b", << <<60000, 20>> >>)) }

(***************************************************************************)
(* The query                                                               *)
(***************************************************************************)
(***************************************************************************)
(* ServerDetail: the range options                                         *)
(***************************************************************************)
\* type RangeValue = number | "realtime"
Realtime == [realtime |-> TRUE, hours |-> 0]
Hours(h) == [realtime |-> FALSE, hours |-> h]

\* networkRange === "realtime" ? 1 : networkRange
networkRangeHours(value) == IF value.realtime THEN 1 ELSE value.hours

\* the range value behind a rangeHours prop
RangeValueOf(hours) == IF hours = 1 THEN Realtime ELSE Hours(hours)

\* Math.max(...baseHours), or 24 for no base hours
RECURSIVE MaxOfSeq(_)
MaxOfSeq(hours) ==
    IF Len(hours) = 1 THEN hours[1] ELSE Max2(Head(hours), MaxOfSeq(Tail(hours)))

BaseMax(baseHours) == IF Len(baseHours) > 0 THEN MaxOfSeq(baseHours) ELSE 24

\* Number.isFinite(maxHours) && maxHours > 0 ? Math.floor(maxHours) : baseMax
SafeMax(hoursLimit, baseHours) ==
    IF NumberIsFinite(hoursLimit) /\ hoursLimit.n > 0
    THEN hoursLimit.n \div hoursLimit.d
    ELSE BaseMax(baseHours)

\* hideMaxWhenBelowOrEqual is a number or undefined
buildRangeOptions(hoursLimit, baseHours, hideMaxWhenBelowOrEqual) ==
    LET safeMax == SafeMax(hoursLimit, baseHours)
        filteredBase == SelectSeq(baseHours, LAMBDA hours : hours <= safeMax)
    IN  IF IsNum(hideMaxWhenBelowOrEqual) /\ safeMax <= hideMaxWhenBelowOrEqual.n
        THEN <<Realtime>>
        ELSE <<Realtime>>
             \o [i \in 1..Len(filteredBase) |-> Hours(filteredBase[i])]
             \o (IF safeMax \notin SeqToSet(filteredBase) THEN <<Hours(safeMax)>> ELSE <<>>)

NetworkBaseHours == <<6, 12, 24, 168>>

\* the network options without hideMaxWhenBelowOrEqual
NetworkOptionsNeverHidden == buildRangeOptions(maxHours, NetworkBaseHours, Undefined)

\* networkOptions (lines 78-81)
NetworkOptions == buildRangeOptions(maxHours, NetworkBaseHours, Num(1))

DetailBaseHours == <<4, 24, 168, 720>>

\* detailOptions (lines 73-76): no hideMaxWhenBelowOrEqual
DetailOptions == buildRangeOptions(detailMaxHours, DetailBaseHours, Undefined)

\* refetchInterval: isRealtime ? 10000 : false
False == [t |-> "false", n |-> 0, d |-> 1]
RefetchInterval == IF rangeHours <= 1 THEN Num(10000) ELSE False

\* the component before any interaction
InitClient ==
    /\ queryStatus = "pending"
    /\ monitorData = NoData
    /\ range = NoRange
    /\ activeCharts = <<>>
    /\ renders = <<>>
    /\ maxHours = NaN
    /\ detailMaxHours = NaN
    /\ detailRange = Realtime
    /\ networkRange = RangeValueOf(rangeHours)

\* getRecords is only called when the node list is fine and holds the server
InitFetch ==
    /\ km_nodes \in {NodesOk, NodesError, NodesNoMatch}
    /\ \/ km_nodes # NodesOk /\ km_monitors = OtherPayload
       \/ km_nodes = NodesOk /\ km_monitors \in PlainObjectPayloads
       \/ km_nodes = NodesOk /\ km_monitors \in ErrorObjectPayloads
       \/ km_nodes = NodesOk /\ km_monitors \in BareArrayPayloads
       \/ km_nodes = NodesOk /\ km_monitors = OtherPayload
    /\ now \in NowInputs
    /\ rangeHours = 1
    /\ isPeakEnabled = FALSE
    /\ InitClient

\* queryFn resolves and NetworkChart renders the result
QueryResolve ==
    /\ queryStatus = "pending"
    /\ ~FetchThrows(km_nodes, km_monitors)
    /\ queryStatus' = "success"
    /\ monitorData' = fetchMonitor(km_nodes, km_monitors, now)
    /\ range' = RangeOf(monitorData', rangeHours, now)
    /\ UNCHANGED <<km_nodes, km_monitors, now, rangeHours, activeCharts, isPeakEnabled,
                   renders, maxHours, networkRange,
                   detailMaxHours, detailRange>>

\* queryFn throws
QueryReject ==
    /\ queryStatus = "pending"
    /\ FetchThrows(km_nodes, km_monitors)
    /\ queryStatus' = "error"
    /\ UNCHANGED <<km_nodes, km_monitors, now, monitorData,
                   rangeHours, range, activeCharts, isPeakEnabled,
                   renders, maxHours, networkRange,
                   detailMaxHours, detailRange>>

NextFetch == QueryResolve \/ QueryReject

SpecFetch == InitFetch /\ [][NextFetch]_vars

\* the chart: the window setting ForcePeakCutEnabled decides the switch
InitChart ==
    /\ km_nodes \in {NodesOk, NodesError}
    /\ \/ km_nodes # NodesOk /\ km_monitors = OtherPayload
       \/ km_nodes = NodesOk /\ km_monitors \in ChartPayloads
    /\ now \in NowInputs
    /\ rangeHours \in ChartHours
    /\ isPeakEnabled \in BOOLEAN
    /\ InitClient

HandleButtonClick(chart) ==
    /\ View = "chart"
    /\ activeCharts' = ToggleChart(activeCharts, chart)
    /\ UNCHANGED <<km_nodes, km_monitors, now, queryStatus, monitorData,
                   rangeHours, range, isPeakEnabled, renders, maxHours, networkRange,
                   detailMaxHours, detailRange>>

\* the Clear button is shown while something is selected
ClearAllSelections ==
    /\ View = "chart"
    /\ Len(activeCharts) > 0
    /\ activeCharts' = <<>>
    /\ UNCHANGED <<km_nodes, km_monitors, now, queryStatus, monitorData,
                   rangeHours, range, isPeakEnabled, renders, maxHours, networkRange,
                   detailMaxHours, detailRange>>

\* the Peak switch
SetIsPeakEnabled(checked) ==
    /\ View = "chart"
    /\ isPeakEnabled' = checked
    /\ UNCHANGED <<km_nodes, km_monitors, now, queryStatus, monitorData,
                   rangeHours, range, activeCharts, renders, maxHours, networkRange,
                   detailMaxHours, detailRange>>

\* NetworkChart renders again with the query result it already has (its
\* parent rendered, or the show prop changed): lines 117-121 run again, at
\* the same time of the clock or later
Rerender ==
    /\ View = "chart"
    /\ Len(renders) < MaxRenders
    /\ now' \in {now, now + RenderDelay}
    /\ range' = RangeOf(monitorData, rangeHours, now')
    /\ renders' = Append(renders, [range  |-> range',
                                   series |-> monitorData.data,
                                   rows   |-> FormatOf(monitorData, range')])
    /\ UNCHANGED <<km_nodes, km_monitors, queryStatus, monitorData, rangeHours,
                   activeCharts, isPeakEnabled, maxHours, networkRange,
                   detailMaxHours, detailRange>>

Next ==
    \/ QueryResolve
    \/ QueryReject
    \/ Rerender
    \/ \E chart \in SeqToSet(ChartDataKey) : HandleButtonClick(chart)
    \/ ClearAllSelections
    \/ SetIsPeakEnabled(~isPeakEnabled)

Spec == InitChart /\ [][Next]_vars

\* getTimeRange on a response that reports a range: the response has arrived
\* and the chart is about to be rendered

\* the inputs getTypicalIntervalMs is explored on: task 1 with up to three
\* samples and task 2 with up to two, at times that give deltas below and
\* above a second
MaxSamples == 3
SampleTimes == {0, 400, 1000, 3000, 61000}
SamplesUpTo(n) == UNION {[1..m -> SampleTimes] : m \in 0..n}
IntervalPayloads ==
    { RecordsPayload([i \in 1..Len(a) |-> Rec(1, "a", a[i], 10)]
                        \o [i \in 1..Len(b) |-> Rec(2, "b", b[i], 20)]) :
        a \in SamplesUpTo(MaxSamples) \ {<<>>}, b \in SamplesUpTo(MaxSamples - 1) }

InitInterval ==
    /\ km_nodes = NodesOk
    /\ km_monitors \in IntervalPayloads
    /\ now \in NowInputs
    /\ rangeHours = 1
    /\ queryStatus = "success"
    /\ monitorData = fetchMonitor(km_nodes, km_monitors, now)
    /\ range = NoRange
    /\ activeCharts = <<>>
    /\ isPeakEnabled = FALSE
    /\ renders = <<>>
    /\ maxHours = NaN
    /\ detailMaxHours = NaN
    /\ detailRange = Realtime
    /\ networkRange = RangeValueOf(rangeHours)


InitRange ==
    /\ km_nodes = NodesOk
    /\ km_monitors \in RangePayloads
    /\ now \in NowInputs
    /\ rangeHours \in RangeHours
    /\ queryStatus = "success"
    /\ \E from \in ReportedInputs, to \in ReportedInputs :
          monitorData = [success |-> TRUE,
                         data    |-> fetchMonitor(km_nodes, km_monitors, now).data,
                         from    |-> from,
                         to      |-> to]
    /\ range = NoRange
    /\ activeCharts = <<>>
    /\ isPeakEnabled = FALSE
    /\ renders = <<>>
    /\ maxHours = NaN
    /\ detailMaxHours = NaN
    /\ detailRange = Realtime
    /\ networkRange = RangeValueOf(rangeHours)

Render ==
    /\ View = "chart"
    /\ range = NoRange
    /\ range' = RangeOf(monitorData, rangeHours, now)
    /\ UNCHANGED <<km_nodes, km_monitors, now, queryStatus, monitorData,
                   rangeHours, activeCharts, isPeakEnabled, renders, maxHours, networkRange,
                   detailMaxHours, detailRange>>

NextRange == Render

SpecRange == InitRange /\ [][NextRange]_vars

SpecInterval == InitInterval /\ [][NextRange]_vars

\* the delays calculatePacketLoss is explored on: a lost probe (-1, stored
\* as null), 0, two ordinary delays, a timeout and an extreme delay; sample
\* i of a series is taken at minute i - 1
MaxDelays == 4
DelayInputs == {-1, 0, 10, 40, 5000, 12000}
DelaySeqs == UNION {[1..n -> DelayInputs] : n \in 1..MaxDelays}
DelayPayload(values) ==
    RecordsPayload([i \in 1..Len(values) |-> Rec(1, "a", (i - 1) * 60000, values[i])])

\* a timeout-adjacent delay among delays of some fifty milliseconds, and the
\* delays at the borders of the classes
ScenarioDelays == <<50, 55, 52, 9999, 51>>
BorderDelays == {<<2999, 3000, 10000>>, <<13000, 45000, 50000>>, <<9999, 12000, 3000>>}

\* one series of delays, or a payload that carries an error
InitLoss ==
    /\ km_nodes = NodesOk
    /\ \/ \E values \in DelaySeqs \cup BorderDelays \cup {ScenarioDelays} :
             km_monitors = DelayPayload(values)
       \/ km_monitors = [DelayPayload(<<10>>) EXCEPT !.error = TRUE]
    /\ now \in NowInputs
    /\ rangeHours = 1
    /\ isPeakEnabled = FALSE
    /\ InitClient

SpecLoss == InitLoss /\ [][NextFetch]_vars

(***************************************************************************)
(* ServerDetail: the network range                                         *)
(***************************************************************************)
\* Number(ping_record_preserve_time): NaN while the setting is missing
MaxHoursInputs ==
    { NaN, Num(-1), Num(0), Rat(1, 2), Num(1), Rat(3, 2), Num(2), Rat(5, 2), Num(3),
      Num(6), Num(7), Num(12), Num(24), Num(100), Num(168), Num(200) }

\* Number(record_preserve_time)
DetailMaxHoursInputs ==
    { NaN, Num(0), Rat(1, 2), Num(1), Num(4), Num(5), Num(24), Num(720), Num(1000) }

\* the page is opened on realtime, the setting may be cached
InitDetail ==
    /\ km_nodes = NodesOk
    /\ km_monitors = OtherPayload
    /\ now \in NowInputs
    /\ rangeHours = 1
    /\ isPeakEnabled = FALSE
    /\ queryStatus = "pending"
    /\ monitorData = NoData
    /\ range = NoRange
    /\ activeCharts = <<>>
    /\ renders = <<>>
    /\ maxHours \in MaxHoursInputs
    /\ networkRange = Realtime
    /\ detailMaxHours \in DetailMaxHoursInputs
    /\ detailRange = Realtime

\* the query of the new range has no result yet
QueryReset ==
    /\ queryStatus' = "pending"
    /\ monitorData' = NoData
    /\ range' = NoRange
    /\ activeCharts' = <<>>
    /\ renders' = <<>>
    /\ UNCHANGED <<km_nodes, km_monitors, now, isPeakEnabled, detailMaxHours, detailRange>>

\* the settings query delivers other preserve times; the page renders with
\* the ranges that are selected
SettingData(value, detailValue) ==
    /\ <<value, detailValue>> # <<maxHours, detailMaxHours>>
    /\ maxHours' = value
    /\ detailMaxHours' = detailValue
    /\ UNCHANGED <<km_nodes, km_monitors, now, queryStatus, monitorData, rangeHours,
                   range, activeCharts, isPeakEnabled, renders, networkRange, detailRange>>

\* a reset to the first option
ResetValueFirst(options) == options[1]

\* options[options.length - 1]?.value ?? "realtime"
ResetValue(options) ==
    IF Len(options) = 0 THEN Realtime ELSE options[Len(options)]

\* a click on an option of the RangeSwitch of the network tab
SetNetworkRange(value) ==
    /\ networkRange' = value
    /\ rangeHours' = networkRangeHours(value)
    /\ QueryReset
    /\ UNCHANGED maxHours

\* the effect of lines 95-99: a range that is not offered gives way to the
\* last option
FixNetworkRange ==
    /\ networkRange \notin SeqToSet(NetworkOptions)
    /\ networkRange' = ResetValue(NetworkOptions)
    /\ rangeHours' = networkRangeHours(networkRange')
    /\ QueryReset
    /\ UNCHANGED maxHours

\* a click on an option of the RangeSwitch of the detail tab
SetDetailRange(value) ==
    /\ detailRange' = value
    /\ UNCHANGED <<km_nodes, km_monitors, now, queryStatus, monitorData, rangeHours,
                   range, activeCharts, isPeakEnabled, renders, maxHours, networkRange,
                   detailMaxHours>>

\* the effect of lines 89-93
FixDetailRange ==
    /\ detailRange \notin SeqToSet(DetailOptions)
    /\ detailRange' = ResetValue(DetailOptions)
    /\ UNCHANGED <<km_nodes, km_monitors, now, queryStatus, monitorData, rangeHours,
                   range, activeCharts, isPeakEnabled, renders, maxHours, networkRange,
                   detailMaxHours>>

NextDetail ==
    \/ \E value \in MaxHoursInputs : \E detailValue \in DetailMaxHoursInputs :
          SettingData(value, detailValue)
    \/ \E value \in SeqToSet(NetworkOptions) : SetNetworkRange(value)
    \/ FixNetworkRange
    \/ \E value \in SeqToSet(DetailOptions) : SetDetailRange(value)
    \/ FixDetailRange

SpecDetail == InitDetail /\ [][NextDetail]_vars

\* the settings the fair behaviours are explored on
FairMaxHoursInputs       == { NaN, Num(1), Num(2), Num(7), Num(24) }
FairDetailMaxHoursInputs == { NaN, Rat(1, 2), Num(5) }

InitDetailFair ==
    /\ InitDetail
    /\ maxHours \in FairMaxHoursInputs
    /\ detailMaxHours \in FairDetailMaxHoursInputs

NextDetailFair ==
    \/ \E value \in FairMaxHoursInputs : \E detailValue \in FairDetailMaxHoursInputs :
          SettingData(value, detailValue)
    \/ \E value \in SeqToSet(NetworkOptions) : SetNetworkRange(value)
    \/ FixNetworkRange
    \/ \E value \in SeqToSet(DetailOptions) : SetDetailRange(value)
    \/ FixDetailRange

\* an effect whose condition holds after a render is run by React before
\* the page takes the next event
SpecDetailFair ==
    /\ InitDetailFair
    /\ [][NextDetailFair]_vars
    /\ WF_vars(FixNetworkRange)
    /\ WF_vars(FixDetailRange)

(***************************************************************************)
(* Properties of fetchMonitor (checked under SpecFetch)                    *)
(***************************************************************************)
Returned == queryStatus = "success"
Data     == monitorData.data

\* the record array of the payload, whatever its shape
PayloadRecords(p) ==
    CASE p.kind = "object" /\ p.records.isArray -> p.records.items
      [] p.kind = "array" -> p.items
      [] OTHER -> <<>>

IsValidOf(rec, id) ==
    /\ RecordId(rec) = id
    /\ DateParse(rec.time).t = "num"
    /\ ToNumber(rec.value).t = "num"

\* the records of task `id` that parse, in payload order
ValidRecordsOf(p, id) ==
    SelectSeq(PayloadRecords(p), LAMBDA rec : IsValidOf(rec, id))

CountIn(seq, x) == Cardinality({i \in 1..Len(seq) : seq[i] = x})

IsPadded(s) == s.created_at = <<now>> /\ s.avg_delay = <<Null>>

\* C1 as stated: in every returned series the timestamps are strictly
\* ascending, created_at[i] < created_at[i+1], whatever the timestamps of the
\* records of the task are.
C1_StrictlyAscending ==
    Returned =>
        \A k \in 1..Len(Data) :
            \A i \in 1..(Len(Data[k].created_at) - 1) :
                Data[k].created_at[i] < Data[k].created_at[i + 1]

\* C1 amended: in every returned series the timestamps are in ascending
\* order, created_at[i] <= created_at[i+1]; the order is strict exactly when
\* no two valid records of the task carry the same timestamp.
C1_Ascending ==
    Returned =>
        \A k \in 1..Len(Data) :
            LET ts    == Data[k].created_at
                valid == ValidRecordsOf(km_monitors, Data[k].monitor_id)
                distinct ==
                    \A a, b \in 1..Len(valid) :
                        a # b => DateParse(valid[a].time) # DateParse(valid[b].time)
            IN  /\ \A i \in 1..(Len(ts) - 1) : ts[i] <= ts[i + 1]
                /\ distinct <=> \A i \in 1..(Len(ts) - 1) : ts[i] < ts[i + 1]

\* a series of two points whose records arrived latest first
C1_Witness ==
    /\ Returned
    /\ \E k \in 1..Len(Data) :
          LET valid == ValidRecordsOf(km_monitors, Data[k].monitor_id)
          IN  /\ Len(valid) = 2
              /\ DateParse(valid[1].time).n > DateParse(valid[2].time).n
              /\ Data[k].created_at[1] < Data[k].created_at[2]

\* C2: every returned series has as many values as timestamps, and the
\* (timestamp, value) pairs of the series are those of the valid records of
\* its task, each as often as it occurs there (sorting keeps value i with
\* timestamp i).
C2_CoSorted ==
    Returned =>
        \A k \in 1..Len(Data) :
            LET s     == Data[k]
                valid == ValidRecordsOf(km_monitors, s.monitor_id)
                want  == [i \in 1..Len(valid) |->
                            [t |-> DateParse(valid[i].time).n,
                             v |-> IF ToNumber(valid[i].value) = Num(-1)
                                   THEN Null ELSE ToNumber(valid[i].value)]]
            IN  /\ Len(s.created_at) = Len(s.avg_delay)
                /\ Len(valid) > 0 =>
                      /\ Len(s.created_at) = Len(valid)
                      /\ \A i \in 1..Len(want) :
                            CountIn(Zip(s), want[i]) = CountIn(want, want[i])

\* two records of one task, latest first, with different values
C2_Witness ==
    /\ Returned
    /\ \E k \in 1..Len(Data) :
          LET valid == ValidRecordsOf(km_monitors, Data[k].monitor_id)
          IN  /\ Len(valid) = 2
              /\ DateParse(valid[1].time).n > DateParse(valid[2].time).n
              /\ valid[1].value # valid[2].value
              /\ Data[k].avg_delay[1] # Data[k].avg_delay[2]

\* C3: no returned series is empty; a task without a valid record yields the
\* single point (now, null), a task with valid records has exactly their
\* points and no synthetic one.
C3_NeverEmpty ==
    Returned =>
        \A k \in 1..Len(Data) :
            LET s     == Data[k]
                valid == ValidRecordsOf(km_monitors, s.monitor_id)
            IN  /\ Len(s.created_at) >= 1
                /\ Len(s.avg_delay) >= 1
                /\ Len(valid) = 0 => s.avg_delay = <<Null>> /\ s.created_at = <<now>>
                /\ Len(valid) > 0 => Len(s.created_at) = Len(valid)

\* a listed task with an empty record array, padded
C3_Witness ==
    /\ Returned
    /\ km_monitors.tasks.isArray /\ Len(km_monitors.tasks.items) > 0
    /\ km_monitors.records.isArray /\ km_monitors.records.items = <<>>
    /\ Len(Data) > 0
    /\ \A k \in 1..Len(Data) : IsPadded(Data[k])

\* C4: in a series built from records, the null points at a timestamp are
\* exactly the valid records of the task whose value is -1 at that timestamp:
\* none of them is dropped and no other value becomes null.
C4_SentinelIsNull ==
    Returned =>
        \A k \in 1..Len(Data) :
            LET s     == Data[k]
                valid == ValidRecordsOf(km_monitors, s.monitor_id)
            IN  Len(valid) > 0 =>
                  \A ms \in {DateParse(valid[i].time).n : i \in 1..Len(valid)} :
                      Cardinality({i \in 1..Len(s.created_at) :
                                      s.created_at[i] = ms /\ s.avg_delay[i] = Null})
                        = Cardinality({i \in 1..Len(valid) :
                                      /\ DateParse(valid[i].time).n = ms
                                      /\ ToNumber(valid[i].value) = Num(-1)})

\* a series holding a lost probe (-1) after a measured delay at a later time
C4_Witness ==
    /\ Returned
    /\ \E k \in 1..Len(Data) :
          LET valid == ValidRecordsOf(km_monitors, Data[k].monitor_id)
          IN  /\ Len(valid) = 2
              /\ valid[1].value = Num(10)
              /\ valid[2].value = Num(-1)
              /\ DateParse(valid[2].time).n < DateParse(valid[1].time).n
              /\ Data[k].avg_delay = <<Null, Num(10)>>

SeriesIds == {Data[k].monitor_id : k \in 1..Len(Data)}
RecordIds(records) == {RecordId(records[i]) : i \in 1..Len(records)}
TaskIds(tasks) == {tasks[i].id : i \in 1..Len(tasks)}

\* C5: the shape of the payload is resolved in a fixed priority: tasks and
\* records give one series per listed task and per further task id of the
\* records; records alone, or a bare array, give one series per task id of
\* the records; anything else without an error field gives an empty result
\* and no failure.
C5_ShapePriority ==
    LET p == km_monitors IN
    (km_nodes = NodesOk /\ ~p.error) =>
        /\ queryStatus # "error"
        /\ Returned =>
              /\ monitorData.success
              /\ Cardinality(SeriesIds) = Len(Data)
              /\ CASE p.kind = "object" /\ p.tasks.isArray /\ p.records.isArray ->
                        SeriesIds = TaskIds(p.tasks.items) \cup RecordIds(p.records.items)
                   [] p.kind = "object" /\ p.records.isArray ->
                        SeriesIds = RecordIds(p.records.items)
                   [] p.kind = "array" -> SeriesIds = RecordIds(p.items)
                   [] OTHER -> Data = <<>>

\* tasks and records: a listed task without records and a record of an
\* unlisted task both have their series
C5_Witness ==
    /\ Returned
    /\ km_monitors.kind = "object"
    /\ km_monitors.tasks.isArray /\ km_monitors.records.isArray
    /\ \E id \in SeriesIds : id \notin RecordIds(km_monitors.records.items)
    /\ \E id \in SeriesIds : id \notin TaskIds(km_monitors.tasks.items)

(***************************************************************************)
(* Properties of the failure path (checked under SpecFetch)                *)
(***************************************************************************)
ErrorReported == km_nodes.error \/ km_monitors.error

\* C6: when the node list or the getRecords payload carries an error,
\* fetchMonitor throws and returns no series, whatever tasks or records the
\* payload also carries: the query never succeeds, and once it has failed
\* NetworkChart shows the fetch-failed view and has computed no range,
\* timeline or rows.
C6_ErrorFails ==
    ErrorReported =>
        /\ queryStatus # "success"
        /\ monitorData = NoData
        /\ range = NoRange
        /\ queryStatus = "error" => View = "fetchFailed"

\* a failed query whose payload carried an error next to tasks and a record
C6_Witness ==
    /\ queryStatus = "error"
    /\ View = "fetchFailed"
    /\ ~km_nodes.error
    /\ km_monitors.error
    /\ km_monitors.tasks.isArray /\ Len(km_monitors.tasks.items) > 0
    /\ km_monitors.records.isArray /\ Len(km_monitors.records.items) > 0
    /\ IsValidRecord(km_monitors.records.items[1])

(***************************************************************************)
(* Properties of getTimeRange (checked under SpecRange)                    *)
(***************************************************************************)
MinOf(S) == CHOOSE x \in S : \A y \in S : x <= y
MaxOf(S) == CHOOSE x \in S : \A y \in S : x >= y

\* C7 as stated: the range is (from, to) when both parse and from < to;
\* otherwise, whenever the observed timestamps have min < max, it is
\* (min observed, max observed); only otherwise it is
\* (now - max(1, floor(rangeHours)) hours, now).
C7_ThreeStrategies ==
    range # NoRange =>
        LET from  == ParseReported(FromOf(monitorData))
            to    == ParseReported(ToOf(monitorData))
            times == AllTimes(monitorData.data)
        IN  IF NumberIsFinite(from) /\ NumberIsFinite(to) /\ from.n < to.n
            THEN range = [rangeStart |-> from, rangeEnd |-> to]
            ELSE IF times # {} /\ MinOf(times) < MaxOf(times)
            THEN range = [rangeStart |-> Num(MinOf(times)), rangeEnd |-> Num(MaxOf(times))]
            ELSE range = [rangeStart |-> Num(now - Max2(1, rangeHours) * 3600000),
                          rangeEnd   |-> Num(now)]

(***************************************************************************)
(* Properties of the chart (checked under Spec)                            *)
(***************************************************************************)
ChartShown == View = "chart"

RowAt(rows, time) ==
    {i \in 1..Len(rows) : GetKey(rows[i], "created_at") = Num(time)}

C9_NeverFabricates ==
    ChartShown =>
        LET formattedData == FormattedData
            input  == baseDataOf(formattedData, activeCharts)
            output == processedData(formattedData, activeCharts, isPeakEnabled, ChartDataKey)
            keys   == KeysToProcess(activeCharts, ChartDataKey)
        IN  \A i \in 1..Len(input) : \A k \in 1..Len(keys) :
                ~IsPresent(GetKey(input[i], keys[k])) => ~IsPresent(GetKey(output[i], keys[k]))

\* C10: the offline spans of the timeline have start < end, are in ascending
\* order of start without overlap (a span ends at or before the start of the
\* next), and no observed in-range timestamp lies in [start, end) of a span.
C10_SpansDisjoint ==
    ChartShown =>
        LET timelineData == TimelineData
            spans == timelineData.offlineSpans
        IN  /\ \A k \in 1..Len(spans) : spans[k].start < spans[k].end
            /\ \A k \in 1..(Len(spans) - 1) :
                  /\ spans[k].start < spans[k + 1].start
                  /\ spans[k].end <= spans[k + 1].start
            /\ \A k \in 1..Len(spans) : \A x \in timelineData.observedSet :
                  ~(spans[k].start <= x /\ x < spans[k].end)

\* a leading, an internal and a trailing span around two observed samples
C10_Witness ==
    /\ ChartShown
    /\ LET timelineData == TimelineData
           spans == timelineData.offlineSpans
       IN  /\ Len(spans) >= 2
           /\ Cardinality(timelineData.observedSet) >= 2
           /\ \E k \in 1..Len(spans) : \E x \in timelineData.observedSet :
                  x + timelineData.intervalMs = spans[k].start

(***************************************************************************)
(* Properties of the formatted rows (checked under Spec)                   *)
(***************************************************************************)
InSpan(spans, t) ==
    \E k \in 1..Len(spans) : spans[k].start <= t /\ t < spans[k].end

MonitorNames == {monitorData.data[k].monitor_name : k \in 1..Len(monitorData.data)}

\* C11: the formatted rows are the rows of the timeline; the row of a time
\* inside an offline span (start <= t < end) has offline marker 1 and a null
\* value and a null packet loss for every monitor; every other row has
\* offline marker null.
C11_OfflineRows ==
    ChartShown =>
        LET timelineData == TimelineData
            rows == FormattedData
        IN  /\ Len(rows) = Len(timelineData.timeline)
            /\ \A i \in 1..Len(rows) :
                  LET t == timelineData.timeline[i]
                  IN  /\ GetKey(rows[i], "created_at") = Num(t)
                      /\ IF InSpan(timelineData.offlineSpans, t)
                         THEN /\ GetKey(rows[i], OFFLINE_KEY) = Num(1)
                              /\ \A name \in MonitorNames :
                                    /\ GetKey(rows[i], name) = Null
                                    /\ GetKey(rows[i], PacketLossKey(name)) = Null
                         ELSE GetKey(rows[i], OFFLINE_KEY) = Null

\* two monitors on a timeline with offline rows and observed rows
C11_Witness ==
    /\ ChartShown
    /\ Cardinality(MonitorNames) = 2
    /\ LET rows == FormattedData
       IN  /\ \E i \in 1..Len(rows) : GetKey(rows[i], OFFLINE_KEY) = Num(1)
           /\ \E i \in 1..Len(rows) : GetKey(rows[i], OFFLINE_KEY) = Null

\* the rows as one series of the input writes them, on rows that no other
\* series has touched
InitialRows ==
    LET timelineData == TimelineData
    IN  ArrayFrom([j \in 1..Len(timelineData.timeline) |->
                      NewRow(timelineData.timeline[j], timelineData.observedSet)])

SeriesRows(k) ==
    LET timelineData == TimelineData
        item == monitorData.data[k]
    IN  FormatSeries(InitialRows, item, calculatePacketLoss(item.avg_delay),
                     timelineData.timeline, timelineData.intervalMs)

\* the rows at which series k has no sample of its own and is not offline
InterpolatedRows(k) ==
    LET timelineData == TimelineData
    IN  {j \in 1..Len(timelineData.timeline) :
            /\ timelineData.timeline[j] \in timelineData.observedSet
            /\ timelineData.timeline[j] \notin SeqToSet(monitorData.data[k].created_at)}

\* the valid samples of a series before and after a time
ValidBefore(item, t) ==
    {i \in 1..Len(item.created_at) : IsPresent(item.avg_delay[i]) /\ item.created_at[i] < t}
ValidAfter(item, t) ==
    {i \in 1..Len(item.created_at) : IsPresent(item.avg_delay[i]) /\ item.created_at[i] > t}

\* the row has two bounding valid samples no more than 1.5 intervals apart
IsBounded(item, t, intervalMs) ==
    /\ ValidBefore(item, t) # {}
    /\ ValidAfter(item, t) # {}
    /\ 2 * (item.created_at[MinOf(ValidAfter(item, t))]
              - item.created_at[MaxOf(ValidBefore(item, t))]) <= 3 * intervalMs

\* C12 as stated: a value written at a row that is not offline and not a
\* sample time of the series lies strictly between the values of the two
\* bounding valid samples; it is null when they are more than 1.5 intervals
\* apart or one of them does not exist.
C12_StrictlyBetween ==
    ChartShown =>
        \A k \in 1..Len(monitorData.data) : \A j \in InterpolatedRows(k) :
            LET item == monitorData.data[k]
                t == TimelineData.timeline[j]
                v == GetKey(SeriesRows(k)[j], item.monitor_name)
                lo == item.avg_delay[MaxOf(ValidBefore(item, t))]
                hi == item.avg_delay[MinOf(ValidAfter(item, t))]
            IN  IF IsBounded(item, t, TimelineData.intervalMs)
                THEN /\ IsNum(v)
                     /\ RLt(RMin(lo, hi), v)
                     /\ RLt(v, RMax(lo, hi))
                ELSE v = Null

\* C12 amended: such a value lies between the values of the two bounding
\* valid samples, both included, and strictly between them when the two
\* values differ; it is null when the samples are more than 1.5 intervals
\* apart or one of them does not exist.
C12_Between ==
    ChartShown =>
        \A k \in 1..Len(monitorData.data) : \A j \in InterpolatedRows(k) :
            LET item == monitorData.data[k]
                t == TimelineData.timeline[j]
                v == GetKey(SeriesRows(k)[j], item.monitor_name)
                lo == item.avg_delay[MaxOf(ValidBefore(item, t))]
                hi == item.avg_delay[MinOf(ValidAfter(item, t))]
            IN  IF IsBounded(item, t, TimelineData.intervalMs)
                THEN /\ IsNum(v)
                     /\ RLe(RMin(lo, hi), v)
                     /\ RLe(v, RMax(lo, hi))
                     /\ lo # hi => RLt(RMin(lo, hi), v) /\ RLt(v, RMax(lo, hi))
                ELSE v = Null

\* a row interpolated between two equal values, one between two different
\* values, and one left null because the bounding samples are too far apart
C12_Witness ==
    /\ ChartShown
    /\ \E k \in 1..Len(monitorData.data) : \E j \in InterpolatedRows(k) :
          LET item == monitorData.data[k]
              t == TimelineData.timeline[j]
          IN  /\ IsBounded(item, t, TimelineData.intervalMs)
              /\ item.avg_delay[MaxOf(ValidBefore(item, t))]
                    = item.avg_delay[MinOf(ValidAfter(item, t))]
              /\ GetKey(SeriesRows(k)[j], item.monitor_name) = Num(10)
    /\ \E k \in 1..Len(monitorData.data) : \E j \in InterpolatedRows(k) :
          LET item == monitorData.data[k]
              t == TimelineData.timeline[j]
          IN  /\ IsBounded(item, t, TimelineData.intervalMs)
              /\ GetKey(SeriesRows(k)[j], item.monitor_name) = Num(10)
              /\ item.avg_delay[MaxOf(ValidBefore(item, t))] = Num(5)

\* C13 as stated: in every formatted row, the value and the packet loss
\* stored for a series of the input are those that the series writes on its
\* own, whatever the other series of the input and their names are.
C13_Independent ==
    ChartShown =>
        LET rows == FormattedData
        IN  \A k \in 1..Len(monitorData.data) :
                LET name == monitorData.data[k].monitor_name
                    own  == SeriesRows(k)
                IN  \A j \in 1..Len(rows) :
                      /\ GetKey(rows[j], name) = GetKey(own[j], name)
                      /\ GetKey(rows[j], PacketLossKey(name))
                            = GetKey(own[j], PacketLossKey(name))

\* the sample times of the series that carry a monitor name
SampleTimesOf(name) ==
    UNION {SeqToSet(monitorData.data[k].created_at) :
             k \in {n \in 1..Len(monitorData.data) : monitorData.data[n].monitor_name = name}}

\* C14: packet loss is never interpolated: a series writes a null packet
\* loss to every row whose time is not one of its sample times, and in the
\* formatted rows the packet loss of a monitor is null in every row whose
\* time is not a sample time of that monitor, also where its delay is
\* interpolated to a number.
C14_LossNotInterpolated ==
    ChartShown =>
        LET timeline == TimelineData.timeline
            rows == FormattedData
        IN  /\ \A k \in 1..Len(monitorData.data) :
                  LET own == SeriesRows(k)
                  IN  \A j \in 1..Len(timeline) :
                        timeline[j] \notin SeqToSet(monitorData.data[k].created_at) =>
                            GetKey(own[j],
                                   PacketLossKey(monitorData.data[k].monitor_name)) = Null
            /\ \A name \in MonitorNames : \A j \in 1..Len(rows) :
                  timeline[j] \notin SampleTimesOf(name) =>
                      GetKey(rows[j], PacketLossKey(name)) = Null

\* a formatted row with an interpolated delay and a null packet loss, at a
\* time that is no sample time of the monitor
C14_Witness ==
    /\ ChartShown
    /\ LET timeline == TimelineData.timeline
           rows == FormattedData
       IN  \E name \in MonitorNames : \E j \in 1..Len(rows) :
              /\ timeline[j] \notin SampleTimesOf(name)
              /\ IsNum(GetKey(rows[j], name))
              /\ GetKey(rows[j], PacketLossKey(name)) = Null

(***************************************************************************)
(* Properties of calculatePacketLoss (checked under SpecLoss)              *)
(***************************************************************************)
InUnit100(r) == IsNum(r) /\ RLe(Num(0), r) /\ RLe(r, Num(100))

\* C15: for the delays of a returned series, calculatePacketLoss returns as
\* many entries as delays, each in [0, 100]; entry 0 is the raw estimate and
\* entry i > 0 is clamp(0.3 * raw[i] + 0.7 * previous unrounded entry, 0, 100),
\* each rounded to two decimals at the end; an unrounded entry differs from
\* the previous one by at most 0.3 * |raw[i] - previous| <= 30, and a rounded
\* one by at most 30.01.
C15_LossSmoothed ==
    Returned =>
        \A s \in 1..Len(monitorData.data) :
            LET delays == monitorData.data[s].avg_delay
                n      == Len(delays)
                loss   == calculatePacketLoss(delays)
                exact  == SmoothedLoss(delays, n - 1)
                raw    == ArrayFrom([i \in 1..n |-> RawLoss(delays, i - 1)])
            IN  /\ Len(loss) = n
                /\ \A i \in 1..n : InUnit100(loss[i]) /\ InUnit100(raw[i])
                /\ exact[1] = raw[1]
                /\ \A i \in 1..n : loss[i] = ToFixed2(exact[i])
                /\ \A i \in 2..n :
                      /\ exact[i] = Clamp100(RAdd(RMul(Rat(3, 10), raw[i]),
                                                  RMul(Rat(7, 10), exact[i - 1])))
                      /\ RLe(RAbs(RSub(exact[i], exact[i - 1])),
                             RMul(Rat(3, 10), RAbs(RSub(raw[i], exact[i - 1]))))
                      /\ RLe(RMul(Rat(3, 10), RAbs(RSub(raw[i], exact[i - 1]))), Num(30))
                      /\ RLe(RAbs(RSub(loss[i], loss[i - 1])), Rat(3001, 100))

\* a series that takes an estimate from the spread of its window and then
\* loses a probe, after which the smoothed loss rises by more than 25
C15_Witness ==
    /\ Returned
    /\ Len(monitorData.data) = 1
    /\ LET delays == monitorData.data[1].avg_delay
           loss   == calculatePacketLoss(delays)
       IN  /\ \E i \in 1..Len(delays) :
                 /\ IsPositiveDelay(delays[i])
                 /\ delays[i].n < 3000
                 /\ RLt(Num(0), RawLoss(delays, i - 1))
           /\ \E i \in 2..Len(delays) :
                 /\ delays[i] = Null
                 /\ RLt(Num(25), RSub(loss[i], loss[i - 1]))

C17_FirstRowsKept ==
    ChartShown =>
        LET formattedData == FormattedData
            input  == baseDataOf(formattedData, activeCharts)
            output == processedData(formattedData, activeCharts, isPeakEnabled, ChartDataKey)
        IN  /\ Len(output) = Len(input)
            /\ isPeakEnabled =>
                  \A i \in 1..Min2(10, Len(input)) : output[i] = input[i]
            /\ ~isPeakEnabled => output = input

\* Peak-Cut is enabled on more than ten rows: the row of index 10 is the
\* first that differs from its input row
C17_Witness ==
    /\ ChartShown
    /\ isPeakEnabled
    /\ LET formattedData == FormattedData
           input  == baseDataOf(formattedData, activeCharts)
           output == processedData(formattedData, activeCharts, isPeakEnabled, ChartDataKey)
       IN  /\ Len(input) > 11
           /\ \A i \in 1..10 : output[i] = input[i]
           /\ output[11] # input[11]

(***************************************************************************)
(* Properties of the range guards (checked under SpecRange)                *)
(***************************************************************************)
\* range endpoints that can form a degenerate or non-finite range
EndpointInputs == {NaN, Num(0), Num(60000), Num(3600000)}

\* C18: the range that getTimeRange returns for the rendered chart is
\* finite with rangeStart < rangeEnd, whatever from, to, series and hours;
\* and for every range that is not finite or has rangeStart >= rangeEnd,
\* buildOfflineSpans and buildTimeTicks return the empty list.
C18_NeverDegenerate ==
    range # NoRange =>
        /\ NumberIsFinite(range.rangeStart)
        /\ NumberIsFinite(range.rangeEnd)
        /\ range.rangeStart.n < range.rangeEnd.n
        /\ \A rangeStart \in EndpointInputs : \A rangeEnd \in EndpointInputs :
              IsDegenerate(rangeStart, rangeEnd) =>
                  /\ buildOfflineSpans(SortSet(AllTimes(monitorData.data)), rangeStart,
                                       rangeEnd, getTypicalIntervalMs(monitorData.data)) = <<>>
                  /\ buildOfflineSpans(<<>>, rangeStart, rangeEnd, DEFAULT_INTERVAL_MS) = <<>>
                  /\ buildTimeTicks(rangeStart, rangeEnd) = <<>>

\* the reported range is reversed and the series is a single padded point:
\* the range is the last hour before now, which has ticks and one span
C18_Witness ==
    /\ range = [rangeStart |-> Num(now - 3600000), rangeEnd |-> Num(now)]
    /\ ParseReported(FromOf(monitorData)) = Num(60000)
    /\ ParseReported(ToOf(monitorData)) = Num(0)
    /\ Len(monitorData.data) = 1
    /\ monitorData.data[1].avg_delay = <<Null>>
    /\ rangeHours < 1
    /\ Len(buildTimeTicks(range.rangeStart, range.rangeEnd)) = 3
    /\ TimelineData.offlineSpans = <<Span(now - 3600000, now)>>

(***************************************************************************)
(* Properties of the network range (checked under SpecDetail)              *)
(***************************************************************************)
\* C19: NetworkChart polls every 10000 ms exactly when the realtime option
\* is selected in ServerDetail and does not poll for a numeric range: it
\* gets rangeHours = 1 for realtime, and every numeric option that
\* buildRangeOptions offers for the network, like every numeric range that
\* is selected, is greater than 1 hour.
C19_PollsOnlyRealtime ==
    /\ rangeHours = networkRangeHours(networkRange)
    /\ networkRange.realtime <=> RefetchInterval = Num(10000)
    /\ ~networkRange.realtime => RefetchInterval = False /\ networkRange.hours > 1
    /\ NetworkOptions[1] = Realtime
    /\ \A i \in 2..Len(NetworkOptions) :
          ~NetworkOptions[i].realtime /\ NetworkOptions[i].hours > 1

\* a numeric range is selected that the options no longer offer, and the
\* setting now allows two hours only
C19_Witness ==
    /\ ~networkRange.realtime
    /\ networkRange \notin SeqToSet(NetworkOptions)
    /\ NetworkOptions = <<Realtime, Hours(2)>>
    /\ RefetchInterval = False


\* the observed timestamps in the displayed range, and the pairs of
\* consecutive ones
ObservedInRange ==
    {x \in AllTimes(monitorData.data) :
        x >= range.rangeStart.n /\ x <= range.rangeEnd.n}

ConsecutiveObserved ==
    {p \in ObservedInRange \X ObservedInRange :
        /\ p[1] < p[2]
        /\ \A x \in ObservedInRange : ~(p[1] < x /\ x < p[2])}

\* C20: with threshold = 1.5 * intervalMs, the offline spans are the whole
\* range when no timestamp is observed; otherwise exactly a leading span
\* [rangeStart, first] iff first - rangeStart > threshold, a span
\* [prev + intervalMs, min(next, rangeEnd)] for consecutive observed
\* prev < next iff next - prev > threshold, and a trailing span
\* [last + intervalMs, rangeEnd] iff rangeEnd - last > threshold; a gap of at
\* most the threshold has no span and no synthetic point of the timeline.
C20_ExactSpans ==
    ChartShown /\ range # NoRange =>
        LET timelineData == TimelineData
            spans      == timelineData.offlineSpans
            intervalMs == timelineData.intervalMs
            timeline   == SeqToSet(timelineData.timeline)
            rangeStart == range.rangeStart.n
            rangeEnd   == range.rangeEnd.n
            observed   == ObservedInRange
        IN  IF observed = {} THEN spans = <<Span(rangeStart, rangeEnd)>>
            ELSE LET first == MinOf(observed)
                     last  == MaxOf(observed)
                     leading  == IF 2 * (first - rangeStart) > 3 * intervalMs
                                 THEN {Span(rangeStart, first)} ELSE {}
                     internal == {Span(p[1] + intervalMs, Min2(p[2], rangeEnd)) :
                                    p \in {q \in ConsecutiveObserved :
                                              2 * (q[2] - q[1]) > 3 * intervalMs}}
                     trailing == IF 2 * (rangeEnd - last) > 3 * intervalMs
                                 THEN {Span(last + intervalMs, rangeEnd)} ELSE {}
                 IN  /\ SeqToSet(spans) = leading \cup internal \cup trailing
                     /\ Len(spans) = Cardinality(leading \cup internal \cup trailing)
                     /\ 2 * (first - rangeStart) <= 3 * intervalMs =>
                           \A t \in timeline : t >= first
                     /\ \A p \in ConsecutiveObserved :
                           2 * (p[2] - p[1]) <= 3 * intervalMs =>
                               /\ ~\E k \in 1..Len(spans) :
                                      spans[k].start < p[2] /\ spans[k].end > p[1]
                               /\ \A t \in timeline : ~(p[1] < t /\ t < p[2])
                     /\ 2 * (rangeEnd - last) <= 3 * intervalMs =>
                           \A t \in timeline : t <= last

\* a leading, an internal and a trailing span, and a gap of at most the
\* threshold between two observed timestamps
C20_Witness ==
    /\ ChartShown /\ range # NoRange
    /\ LET timelineData == TimelineData
           spans      == timelineData.offlineSpans
           intervalMs == timelineData.intervalMs
           observed   == ObservedInRange
       IN  /\ Len(spans) = 3
           /\ spans[1] = Span(range.rangeStart.n, MinOf(observed))
           /\ \E p \in ConsecutiveObserved : spans[2] = Span(p[1] + intervalMs, p[2])
           /\ spans[3] = Span(MaxOf(observed) + intervalMs, range.rangeEnd.n)
           /\ \E p \in ConsecutiveObserved : 2 * (p[2] - p[1]) <= 3 * intervalMs


(***************************************************************************)
(* Properties of the cursor of formatData (checked under Spec)             *)
(***************************************************************************)
\* the latest valid sample of a series before a time and the earliest one
\* after it, by time
LatestBefore(item, t) ==
    CHOOSE i \in ValidBefore(item, t) :
        \A n \in ValidBefore(item, t) : item.created_at[n] <= item.created_at[i]

EarliestAfter(item, t) ==
    CHOOSE i \in ValidAfter(item, t) :
        \A n \in ValidAfter(item, t) : item.created_at[i] <= item.created_at[n]

\* the rows of the timeline before row j that one series passes without
\* moving its cursor: offline rows and rows of its own sample times
SkippedBefore(k, j) == {i \in 1..(j - 1) : i \notin InterpolatedRows(k)}

\* C21: at a row that is not offline and whose time t is no sample time of
\* the series, the value written for the series is
\* p.v + (t - p.t) / (n.t - p.t) * (n.v - p.v), with p the latest valid
\* sample before t and n the earliest valid sample after t, when both exist
\* and n.t - p.t <= 1.5 * intervalMs, and null otherwise; whatever rows
\* precede the row.
C21_ExactBounds ==
    ChartShown =>
        \A k \in 1..Len(monitorData.data) :
            LET own == SeriesRows(k)
                item == monitorData.data[k]
                intervalMs == TimelineData.intervalMs
            IN  \A j \in InterpolatedRows(k) :
                    LET t == TimelineData.timeline[j]
                        v == GetKey(own[j], item.monitor_name)
                    IN  IF ValidBefore(item, t) # {} /\ ValidAfter(item, t) # {}
                        THEN LET p == LatestBefore(item, t)
                                 n == EarliestAfter(item, t)
                                 pt == item.created_at[p]
                                 nt == item.created_at[n]
                             IN  IF 2 * (nt - pt) <= 3 * intervalMs
                                 THEN v = RAdd(item.avg_delay[p],
                                               RMul(Rat(t - pt, nt - pt),
                                                    RSub(item.avg_delay[n],
                                                         item.avg_delay[p])))
                                 ELSE v = Null
                        ELSE v = Null

\* a row interpolated after three earlier samples of the series that the
\* cursor has not yet passed, behind rows of its own samples and offline rows
C21_Witness ==
    /\ ChartShown
    /\ \E k \in 1..Len(monitorData.data) : \E j \in InterpolatedRows(k) :
          LET item == monitorData.data[k]
              t == TimelineData.timeline[j]
              rows == FormattedData
          IN  /\ Cardinality(ValidBefore(item, t)) = 3
              /\ SkippedBefore(k, j) = 1..(j - 1)
              /\ \E i \in 1..(j - 1) : GetKey(rows[i], OFFLINE_KEY) = Num(1)
              /\ \E i \in 1..(j - 1) :
                    TimelineData.timeline[i] \in SeqToSet(item.created_at)
              /\ GetKey(SeriesRows(k)[j], item.monitor_name) = Num(40)


(***************************************************************************)
(* Properties of appendRecord (checked under SpecFetch)                    *)
(***************************************************************************)
\* the point a valid record contributes
PointOf(rec) ==
    [t |-> DateParse(rec.time).n,
     v |-> IF ToNumber(rec.value) = Num(-1) THEN Null ELSE ToNumber(rec.value)]

PointsOf(records) == [i \in 1..Len(records) |-> PointOf(records[i])]

\* the points of a series are those of the records, each as often
SamePoints(s, records) ==
    /\ Len(s.created_at) = Len(records)
    /\ Len(s.avg_delay) = Len(records)
    /\ \A i \in 1..Len(records) :
          CountIn(Zip(s), PointOf(records[i])) = CountIn(PointsOf(records), PointOf(records[i]))

\* C22 as stated: no record makes the call fail, every task id of a record
\* has a series, and the points of every returned series are exactly the
\* points of the valid records of its task id (-1 as null), one per record;
\* a record whose timestamp or value is not finite contributes none.
C22_ExactlyValid ==
    (km_nodes = NodesOk /\ ~km_monitors.error) =>
        /\ queryStatus # "error"
        /\ Returned =>
              /\ RecordIds(PayloadRecords(km_monitors)) \subseteq SeriesIds
              /\ \A k \in 1..Len(Data) :
                    SamePoints(Data[k], ValidRecordsOf(km_monitors, Data[k].monitor_id))

\* C22 amended: the same, except that a series whose task id has no valid
\* record holds the single point (now, null) instead of no point.
C22_ValidOrPadded ==
    (km_nodes = NodesOk /\ ~km_monitors.error) =>
        /\ queryStatus # "error"
        /\ Returned =>
              /\ RecordIds(PayloadRecords(km_monitors)) \subseteq SeriesIds
              /\ \A k \in 1..Len(Data) :
                    LET valid == ValidRecordsOf(km_monitors, Data[k].monitor_id)
                    IN  IF Len(valid) = 0 THEN IsPadded(Data[k])
                        ELSE SamePoints(Data[k], valid)

\* one task with a record that parses and a record whose value does not
\* convert: the series holds the point of the first only
C22_Witness ==
    /\ Returned
    /\ LET records == PayloadRecords(km_monitors)
       IN  /\ Len(records) = 2
           /\ RecordId(records[1]) = RecordId(records[2])
           /\ IsValidOf(records[1], RecordId(records[1]))
           /\ DateParse(records[2].time).t = "num"
           /\ ToNumber(records[2].value) = NaN
           /\ \E k \in 1..Len(Data) :
                 /\ Data[k].monitor_id = RecordId(records[1])
                 /\ Zip(Data[k]) = <<PointOf(records[1])>>


(***************************************************************************)
(* Properties of getTypicalIntervalMs (checked under SpecInterval)         *)
(***************************************************************************)
\* the positive consecutive deltas of all series, each at its position
DeltaAt(pos) ==
    Data[pos[1]].created_at[pos[2]] - Data[pos[1]].created_at[pos[2] - 1]

PositiveDeltas ==
    {pos \in UNION {{<<k, i>> : i \in 2..Len(Data[k].created_at)} : k \in 1..Len(Data)} :
        DeltaAt(pos) > 0}

\* x is a delta with at least `below` deltas <= x and `above` deltas >= x
IsRanked(x, below, above) ==
    /\ \E pos \in PositiveDeltas : DeltaAt(pos) = x
    /\ Cardinality({pos \in PositiveDeltas : DeltaAt(pos) <= x}) >= below
    /\ Cardinality({pos \in PositiveDeltas : DeltaAt(pos) >= x}) >= above

\* twice the median m2 of the pooled deltas: the middle value counted twice,
\* or the sum of the two middle values
IsTwiceMedian(m2) ==
    LET n == Cardinality(PositiveDeltas)
        values == {DeltaAt(pos) : pos \in PositiveDeltas}
    IN  IF n % 2 = 1
        THEN \E x \in values :
                /\ IsRanked(x, (n + 1) \div 2, (n + 1) \div 2)
                /\ m2 = 2 * x
        ELSE \E x, y \in values :
                /\ IsRanked(x, n \div 2, n \div 2 + 1)
                /\ IsRanked(y, n \div 2 + 1, n \div 2)
                /\ m2 = x + y

\* C23: the sample interval is 60000 when no series has a positive
\* consecutive delta; otherwise it is max(1000, r) with r the multiple of
\* 1000 nearest to the median of the pooled positive deltas (the mean of the
\* two middle values for an even count; the upper multiple when the median
\* is halfway); it is always a positive multiple of 1000.
C23_TypicalInterval ==
    (ChartShown /\ range # NoRange) =>
        LET intervalMs == TimelineData.intervalMs
        IN  /\ intervalMs > 0 /\ intervalMs % 1000 = 0
            /\ IF PositiveDeltas = {} THEN intervalMs = 60000
               ELSE \E m2 \in {DeltaAt(p) + DeltaAt(q) : p, q \in PositiveDeltas} :
                    \E r \in 0..(m2 \div 2000 + 1) :
                        /\ IsTwiceMedian(m2)
                        /\ 2 * r * 1000 - m2 > -1000
                        /\ 2 * r * 1000 - m2 <= 1000
                        /\ intervalMs = Max2(1000, r * 1000)

\* two series whose pooled deltas 1000 and 2000 have the median 1500,
\* halfway between two seconds
C23_Witness ==
    /\ ChartShown /\ range # NoRange
    /\ Len(Data) = 2
    /\ {DeltaAt(pos) : pos \in PositiveDeltas} = {1000, 2000}
    /\ Cardinality(PositiveDeltas) = 2
    /\ \E pos \in PositiveDeltas : pos[1] = 1
    /\ \E pos \in PositiveDeltas : pos[1] = 2
    /\ TimelineData.intervalMs = 2000


\* the rows at which series k has a sample of its own
SampleRows(k) ==
    LET timelineData == TimelineData
    IN  {j \in 1..Len(timelineData.timeline) :
            timelineData.timeline[j] \in SeqToSet(monitorData.data[k].created_at)}

\* C24: at a row whose time is a sample time of the series, the row is not
\* offline and the series writes the delay of a sample of that time (null
\* for a lost probe, whatever its neighbours are) together with the packet
\* loss of the same sample; of several samples of one time it is the last.
C24_SampleValues ==
    ChartShown =>
        \A k \in 1..Len(monitorData.data) :
            LET own  == SeriesRows(k)
                item == monitorData.data[k]
                packetLoss == calculatePacketLoss(item.avg_delay)
            IN  \A j \in SampleRows(k) :
                    LET t == TimelineData.timeline[j]
                        i == MaxOf({n \in 1..Len(item.created_at) : item.created_at[n] = t})
                    IN  /\ GetKey(own[j], OFFLINE_KEY) = Null
                        /\ GetKey(own[j], item.monitor_name) = item.avg_delay[i]
                        /\ GetKey(own[j], PacketLossKey(item.monitor_name)) = packetLoss[i]

\* a lost probe between two measured samples one interval apart on each
\* side: its row holds null and the loss of the probe
C24_Witness ==
    /\ ChartShown
    /\ \E k \in 1..Len(monitorData.data) : \E j \in SampleRows(k) :
          LET item == monitorData.data[k]
              t == TimelineData.timeline[j]
              i == MaxOf({n \in 1..Len(item.created_at) : item.created_at[n] = t})
          IN  /\ item.avg_delay[i] = Null
              /\ ValidBefore(item, t) # {} /\ ValidAfter(item, t) # {}
              /\ GetKey(FormattedData[j], item.monitor_name) = Null
              /\ IsNum(GetKey(FormattedData[j], PacketLossKey(item.monitor_name)))
              /\ \E n \in 1..Len(item.created_at) :
                    item.created_at[n] = t /\ item.avg_delay[n] = Num(20)


(***************************************************************************)
(* Properties of the loss classes (checked under SpecLoss)                 *)
(***************************************************************************)
\* the estimate the classes of a lost, an extreme and a timeout-adjacent
\* delay give, in thousandths
ClassLoss(delay) ==
    IF ~IsNum(delay) \/ delay.n = 0 THEN Rat(100000, 1000)
    ELSE IF delay.n >= 10000 THEN Rat(Min2(95000, 60000 + (delay.n - 10000)), 1000)
    ELSE Rat(Min2(50000, (delay.n - 3000) * 5), 1000)

InClass(delay) == ~IsNum(delay) \/ delay.n = 0 \/ delay.n >= 3000

\* C25: a delay that is 0 or null has the raw estimate 100, a delay
\* >= 10000 has min(95, 60 + (delay - 10000) / 1000), and otherwise a delay
\* >= 3000 has min(50, (delay - 3000) / 200); the rate of entry 0 is its raw
\* estimate, the rate of a later entry is 0.3 * raw + 0.7 * the rate of the
\* entry before, and the returned value is the rate rounded to two
\* decimals.  For the delays 50, 55, 52, 9999, 51 the entry 3 has the raw
\* estimate 34.995, the rate 0.3 * 34.995 + 0.7 * (rate of entry 2), and the
\* value 14.88.
C25_LossClasses ==
    Returned =>
        \A s \in 1..Len(monitorData.data) :
            LET delays == monitorData.data[s].avg_delay
                n      == Len(delays)
                loss   == calculatePacketLoss(delays)
                exact  == SmoothedLoss(delays, n - 1)
            IN  /\ \A i \in 1..n :
                      InClass(delays[i]) =>
                          /\ exact[i] =
                                IF i = 1 THEN ClassLoss(delays[i])
                                ELSE RAdd(RMul(Rat(3, 10), ClassLoss(delays[i])),
                                          RMul(Rat(7, 10), exact[i - 1]))
                          /\ loss[i] = ToFixed2(exact[i])
                /\ km_monitors = DelayPayload(ScenarioDelays) =>
                      /\ ClassLoss(delays[4]) = Rat(34995, 1000)
                      /\ exact[4] = RAdd(RMul(Rat(3, 10), Rat(34995, 1000)),
                                         RMul(Rat(7, 10), exact[3]))
                      /\ loss[4] = Rat(1488, 100)

\* the delays 50, 55, 52, 9999, 51 have been fetched; the entry before the
\* timeout-adjacent delay has a rate above 0
C25_Witness ==
    /\ Returned
    /\ km_monitors = DelayPayload(ScenarioDelays)
    /\ Len(monitorData.data) = 1
    /\ monitorData.data[1].avg_delay = <<Num(50), Num(55), Num(52), Num(9999), Num(51)>>
    /\ calculatePacketLoss(monitorData.data[1].avg_delay)[3] = Rat(626, 100)
    /\ calculatePacketLoss(monitorData.data[1].avg_delay)[4] = Rat(1488, 100)


(***************************************************************************)
(* Properties of the Peak-Cut pass (checked under Spec)                    *)
(***************************************************************************)
\* the values of a key in the eleven rows that end at row `index` (from 0)
ValuesUpTo(data, key, index) ==
    SelectSeq(ArrayFrom([k \in 1..11 |-> GetKey(data[index - 10 + k], key)]), IsPresent)

\* the rows (from 0) with a full window that holds a value of the key
ValuedRows(data, key) ==
    {index \in 10..(Len(data) - 1) : ValuesUpTo(data, key, index) # <<>>}

\* the running state of a key after such a row: the result of the window
\* at the first of them, and 0.3 * result + 0.7 * the state after the
\* previous one at every later one
RECURSIVE RunningState(_, _, _, _)
RunningState(data, key, valued, index) ==
    LET earlier == {j \in valued : j < index}
        result  == processValues(ValuesUpTo(data, key, index))
    IN  IF earlier = {} THEN result
        ELSE RAdd(RMul(Rat(3, 10), result),
                  RMul(Rat(7, 10), RunningState(data, key, valued, MaxOf(earlier))))

\* C26: in a Peak-Cut pass the value written for a processed key at a row
\* of index >= 10 whose window holds a value of the key is the running
\* state of the key, which starts undefined in every pass, is set to the
\* result of the first such window and is 0.3 * result + 0.7 * state after
\* each later one; a row whose window holds no value of the key keeps its
\* value and leaves the state as it is; the values of a key are those of a
\* pass over that key alone.
C26_RunningEwma ==
    (ChartShown /\ isPeakEnabled) =>
        LET formattedData == FormattedData
            input  == baseDataOf(formattedData, activeCharts)
            output == processedData(formattedData, activeCharts, isPeakEnabled, ChartDataKey)
            keys   == KeysToProcess(activeCharts, ChartDataKey)
        IN  \A k \in 1..Len(keys) :
                LET alone  == PeakCut(input, <<keys[k]>>)
                    valued == ValuedRows(input, keys[k])
                IN  \A i \in 11..Len(input) :
                        /\ GetKey(output[i], keys[k]) =
                              IF i - 1 \in valued
                              THEN RunningState(input, keys[k], valued, i - 1)
                              ELSE GetKey(input[i], keys[k])
                        /\ GetKey(output[i], keys[k]) = GetKey(alone[i], keys[k])

\* a pass after a render over two keys: one key has its state set by a
\* window and blended by a later one, the other has a state and a later
\* window without any value
C26_Witness ==
    /\ ChartShown /\ isPeakEnabled
    /\ renders # <<>>
    /\ LET input == baseDataOf(FormattedData, activeCharts)
           keys  == KeysToProcess(activeCharts, ChartDataKey)
       IN  /\ Len(keys) = 2
           /\ \E i \in ValuedRows(input, keys[1]) :
                 /\ i - 1 \in ValuedRows(input, keys[1])
                 /\ RunningState(input, keys[1], ValuedRows(input, keys[1]), i)
                       # processValues(ValuesUpTo(input, keys[1], i))
           /\ ValuedRows(input, keys[2]) = {10}
           /\ Len(input) > 11


\* C27: the Peak-Cut filter returns as many rows as it is given, in the
\* same order, and a row differs from its input row at the processed keys
\* only: created_at, the offline marker, every packet-loss entry and the
\* column of every monitor that is not selected stay as they are; in
\* single-selection mode the processed key is avg_delay.
C27_OnlyDelays ==
    (ChartShown /\ isPeakEnabled) =>
        LET formattedData == FormattedData
            input  == baseDataOf(formattedData, activeCharts)
            output == processedData(formattedData, activeCharts, isPeakEnabled, ChartDataKey)
            processed == IF Len(activeCharts) = 1 THEN {"avg_delay"}
                         ELSE IF Len(activeCharts) > 0 THEN SeqToSet(activeCharts)
                         ELSE MonitorNames
        IN  /\ Len(output) = Len(input)
            /\ \A i \in 1..Len(input) :
                  /\ DOMAIN output[i] = DOMAIN input[i]
                  /\ \A key \in DOMAIN input[i] \ processed : output[i][key] = input[i][key]
                  /\ {"created_at", OFFLINE_KEY} \subseteq DOMAIN input[i] \ processed
                  /\ \A name \in MonitorNames :
                        PacketLossKey(name) \in DOMAIN formattedData[i] \ processed
                  /\ Len(activeCharts) = 1 =>
                        "packet_loss" \in DOMAIN input[i] \ processed

\* two of three monitors are selected and filtered; the third has a sample
\* in the first full window and keeps its null there
C27_Witness ==
    /\ ChartShown /\ isPeakEnabled
    /\ Len(activeCharts) = 2
    /\ LET formattedData == FormattedData
           output == processedData(formattedData, activeCharts, isPeakEnabled, ChartDataKey)
       IN  \E name \in MonitorNames \ SeqToSet(activeCharts) :
               /\ 10 \in ValuedRows(formattedData, name)
               /\ output[11][name] = Null
               /\ \E key \in SeqToSet(activeCharts) : output[11][key] # formattedData[11][key]


(***************************************************************************)
(* Properties of the timeline (checked under SpecRange)                    *)
(***************************************************************************)
\* C28: the timeline is strictly ascending; every synthetic point p of an
\* offline span has rangeStart <= p < rangeEnd and is no timestamp of any
\* series; the observed points of the timeline are the timestamps of the
\* series inside [rangeStart, rangeEnd]; the timeline holds the points of
\* both kinds and its length is the number of distinct observed timestamps
\* in the range plus the number of synthetic points.
C28_TimelineAscending ==
    (ChartShown /\ range # NoRange) =>
        LET timelineData == TimelineData
            timeline   == timelineData.timeline
            points     == buildOfflinePoints(timelineData.offlineSpans,
                                             timelineData.intervalMs)
            rangeStart == range.rangeStart.n
            rangeEnd   == range.rangeEnd.n
        IN  /\ \A i \in 1..(Len(timeline) - 1) : timeline[i] < timeline[i + 1]
            /\ \A i \in 1..Len(points) :
                  /\ rangeStart <= points[i] /\ points[i] < rangeEnd
                  /\ points[i] \notin AllTimes(monitorData.data)
            /\ timelineData.observedSet = ObservedInRange
            /\ \A x \in timelineData.observedSet : rangeStart <= x /\ x <= rangeEnd
            /\ SeqToSet(timeline) = ObservedInRange \cup SeqToSet(points)
            /\ Len(timeline) = Cardinality(ObservedInRange) + Len(points)

\* a series with a sample before the range and two inside it, followed by
\* synthetic points up to the end of the range
C28_Witness ==
    /\ ChartShown /\ range # NoRange
    /\ LET timelineData == TimelineData
           points == buildOfflinePoints(timelineData.offlineSpans, timelineData.intervalMs)
       IN  /\ AllTimes(monitorData.data) \ ObservedInRange # {}
           /\ Cardinality(ObservedInRange) = 2
           /\ Len(points) > 2
           /\ points[Len(points)] + timelineData.intervalMs = range.rangeEnd.n
           /\ Len(timelineData.timeline) = Len(points) + 2

(***************************************************************************)
(* Properties of the registration of series (checked under SpecFetch)      *)
(***************************************************************************)
\* the task list of the payload, read only together with a record array
PayloadTasks(p) ==
    IF p.kind = "object" /\ p.tasks.isArray /\ p.records.isArray
    THEN p.tasks.items ELSE <<>>

FirstTaskOf(tasks, id) ==
    tasks[CHOOSE i \in 1..Len(tasks) :
            tasks[i].id = id /\ \A j \in 1..(i - 1) : tasks[j].id # id]

FirstRecordOf(records, id) ==
    records[CHOOSE i \in 1..Len(records) :
            RecordId(records[i]) = id /\ \A j \in 1..(i - 1) : RecordId(records[j]) # id]

\* C29: the series of a record's task id (task_id, or 0 when it is absent)
\* is registered before the record is validated, and a series keeps the name
\* it was created with: every record, valid or not, has the series of its
\* task id in the output, padded to the single null point when the task has
\* no valid record; the monitor_name of a series is the name of the first
\* task-list entry of its id or, for an id that is not listed, the name of
\* the first record of that id (its name field, or task_<id> without one),
\* whatever the later records are named.
C29_SeriesRegistered ==
    (km_nodes = NodesOk /\ ~km_monitors.error /\ Returned) =>
        LET records == PayloadRecords(km_monitors)
            tasks   == PayloadTasks(km_monitors)
        IN  /\ \A i \in 1..Len(records) :
                  \E k \in 1..Len(Data) :
                      /\ Data[k].monitor_id = RecordId(records[i])
                      /\ Data[k].monitor_id =
                            (IF records[i].task_id.t = "num" THEN records[i].task_id.n ELSE 0)
                      /\ ValidRecordsOf(km_monitors, Data[k].monitor_id) = <<>>
                            => IsPadded(Data[k])
            /\ \A k \in 1..Len(Data) :
                  LET id == Data[k].monitor_id
                  IN  Data[k].monitor_name =
                        (IF id \in TaskIds(tasks) THEN FirstTaskOf(tasks, id).name
                         ELSE RecordName(FirstRecordOf(records, id)))

\* an unlisted task whose first record has no name and does not parse and
\* whose second record is named: the series is there, padded, under the
\* default name of the first record
C29_Witness ==
    /\ km_nodes = NodesOk /\ ~km_monitors.error /\ Returned
    /\ LET records == PayloadRecords(km_monitors)
       IN  /\ Len(records) = 2
           /\ PayloadTasks(km_monitors) = <<>>
           /\ records[1].task_id = Num(1) /\ records[2].task_id = Num(1)
           /\ records[1].name = UndefinedName /\ records[2].name = Name("a")
           /\ ~IsValidRecord(records[1]) /\ ~IsValidRecord(records[2])
           /\ Len(Data) = 1
           /\ Data[1].monitor_name = "task_1"
           /\ IsPadded(Data[1])

(***************************************************************************)
(* Properties of the selected ranges (checked under SpecDetailFair)        *)
(***************************************************************************)
NetworkOffered == networkRange \in SeqToSet(NetworkOptions)
DetailOffered  == detailRange \in SeqToSet(DetailOptions)

\* what a step of the page does to the two selections
RangeSteps ==
    /\ FixNetworkRange =>
          /\ ~NetworkOffered
          /\ networkRange' = NetworkOptions[Len(NetworkOptions)]
          /\ NetworkOffered'
    /\ FixDetailRange =>
          /\ ~DetailOffered
          /\ detailRange' = DetailOptions[Len(DetailOptions)]
          /\ DetailOffered'
    /\ (NetworkOffered /\ maxHours' = maxHours) => NetworkOffered'
    /\ (DetailOffered /\ detailMaxHours' = detailMaxHours) => DetailOffered'

\* C30: the selected range converges to an offered option. Both option
\* lists always contain realtime; the effect resets a selection only when
\* it is not among the options, and then to the last option of the list;
\* after the effect the selection is a member of the list and stays one
\* until the options change; and a selection that is not offered leads to
\* one that is.
C30_Converges ==
    /\ [](Realtime \in SeqToSet(NetworkOptions) /\ Realtime \in SeqToSet(DetailOptions))
    /\ [][RangeSteps]_vars
    /\ (~NetworkOffered) ~> NetworkOffered
    /\ (~DetailOffered) ~> DetailOffered

\* the settings have taken both selections from their lists; the detail
\* range is at the last option of its list again, the network range still
\* is the one that was taken away
C30_Witness ==
    /\ DetailOptions = <<Realtime, Hours(4), Hours(5)>>
    /\ detailRange = Hours(5)
    /\ NetworkOptions = <<Realtime>>
    /\ networkRange = Hours(168)

====
